---- MODULE Spec2Model ----
(***************************************************************************)
(* Scheduling backend of the calendly clone: the booking routes (slot      *)
(* generation, booking creation), meeting cancellation, the availability   *)
(* routes, the event-type routes and the tables they read and write.       *)
(*                                                                         *)
(* Time is counted in ticks.  An instant is a number of ticks since the    *)
(* UTC midnight that starts date 0; a civil date-time is the number of     *)
(* ticks since the civil midnight that starts date 0 (date * DayLen + time *)
(* of day).  Zones have a fixed offset from UTC (no DST transition).       *)
(***************************************************************************)
EXTENDS Integers, Sequences, FiniteSets, TLC

VARIABLES
    event_types,     \* table event_types: set of rows
    availability,    \* table availability: rows in insertion (id) order
    overrides,       \* table availability_overrides: set of rows
    meetings,        \* table meetings: rows in insertion order, id = index
    now,             \* the current UTC instant, moment.utc()
    pc,              \* booking request -> position in router.post('/')
    body,            \* booking request -> req.body
    locals,          \* booking request -> eventType, startTimeUTC, endTimeUTC, insertId
    response,        \* booking request -> HTTP response
    cpc,             \* cancel request -> position in router.patch('/:id/cancel')
    cid,             \* cancel request -> req.params.id
    cresponse,       \* cancel request -> HTTP response
    slotsCall,       \* the last GET /slots/:eventSlug call: its request and response
    loop,            \* a GET /slots/:eventSlug request followed turn by turn
    spc,             \* availability save -> position in router.post('/')
    sbody,           \* availability save -> req.body
    stx,             \* availability save -> the uncommitted work of its transaction
    sresponse,       \* availability save -> HTTP response
    rread,           \* the last GET /api/availability/:eventTypeId call
    epc,             \* event-type request -> position in its handler
    ebody,           \* event-type request -> the operation, req.params.id, req.body
    eresponse        \* event-type request -> HTTP response

\* the state of the availability routes and of the event-type routes
saveVars == <<spc, sbody, stx, sresponse, rread>>
eventTypeVars == <<epc, ebody, eresponse>>

vars == <<event_types, availability, overrides, meetings, now, loop, pc, body, locals,
          response, cpc, cid, cresponse, slotsCall, saveVars, eventTypeVars>>

-----------------------------------------------------------------------------
(* Bounds *)

DayLen == 4          \* ticks in a civil day
MaxRules == 2        \* availability rows stored for an event type
MaxMeetings == 1     \* meetings stored before a slot generation call
MaxStart == 2        \* largest civil startTime a booking request sends
MaxSaveRows == 2     \* rows in the list of an availability save

Zones == {"UTC", "East"}
UnknownZone == "Mars/Phobos"
Requests == {"r1", "r2"}
Cancellers == {"c1", "c2"}
Savers == {"s1", "s2"}
EventTypeRequests == {"e1", "e2"}

-----------------------------------------------------------------------------
(* moment-timezone: a moment is an instant together with the zone it is    *)
(* displayed in.                                                           *)

\* the offset of a zone; for a name without zone data moment.tz logs an error
\* and leaves the moment in UTC
Offset(zone) == IF zone = "East" THEN 1 ELSE 0

\* moment.tz(civil, zone): the civil date-time read in zone
MomentTz(civil, zone) == [t |-> civil - Offset(zone), zone |-> zone]

\* m.clone().add(n, 'minutes')
Add(m, n) == [m EXCEPT !.t = m.t + n]

\* m.clone().utc()
Utc(m) == [m EXCEPT !.zone = "UTC"]

\* m.format('YYYY-MM-DDTHH:mm:ss'): the civil date-time of m in its own zone
Format(m) == m.t + Offset(m.zone)

\* m.clone().startOf('day')
StartOfDay(m) == [m EXCEPT !.t = m.t - (Format(m) % DayLen)]

\* m.clone().endOf('day'): the last millisecond of the civil day.  Stored
\* instants are whole ticks, so "x < endOfDay" holds for exactly the instants
\* before the next civil midnight.
EndOfDay(m) == [m EXCEPT !.t = StartOfDay(m).t + DayLen]

\* requestedDate.day(): 0 = Sunday .. 6 = Saturday; date 0 is a Monday
Day(m) == (((Format(m) - (Format(m) % DayLen)) \div DayLen) + 1) % 7

\* `${date} ${time}` as a civil date-time
DateTime(date, time) == date * DayLen + time

-----------------------------------------------------------------------------
(* Queries *)

\* SELECT * FROM event_types WHERE slug = ?
EventTypeBySlug(slug) == {et \in event_types : et.slug = slug}

\* SELECT id FROM event_types WHERE id = ?
EventTypeById(id) == {et \in event_types : et.id = id}

\* SELECT * FROM availability WHERE event_type_id = ?
AvailabilityOf(id) == SelectSeq(availability, LAMBDA a : a.event_type_id = id)

\* SELECT * FROM availability_overrides WHERE event_type_id = ? AND override_date = ?
OverrideOf(id, date) ==
    {o \in overrides : o.event_type_id = id /\ o.override_date = date}

\* the ids of the rows of meetings (a deleted row keeps its position, see
\* DeletedMeeting)
MeetingIds == {i \in 1..Len(meetings) : meetings[i].status # "deleted"}

\* SELECT start_time, end_time FROM meetings WHERE event_type_id = ?
\*   AND status = 'scheduled' AND start_time >= ? AND start_time < ?
ExistingBookings(id, startOfDay, endOfDay) ==
    {i \in MeetingIds : /\ meetings[i].event_type_id = id
                        /\ meetings[i].status = "scheduled"
                        /\ meetings[i].start_time >= startOfDay.t
                        /\ meetings[i].start_time < endOfDay.t}

\* the conflict query with closed bounds (start_time <= ? AND end_time >= ?)
ConflictingBookings_Closed(id, startTimeUTC, endTimeUTC) ==
    {i \in 1..Len(meetings) : /\ meetings[i].event_type_id = id
                              /\ meetings[i].status = "scheduled"
                              /\ meetings[i].start_time <= endTimeUTC
                              /\ meetings[i].end_time >= startTimeUTC}

\* the conflict query without its status condition
ConflictingBookings_AnyStatus(id, startTimeUTC, endTimeUTC) ==
    {i \in MeetingIds : /\ meetings[i].event_type_id = id
                        /\ meetings[i].start_time < endTimeUTC
                        /\ meetings[i].end_time > startTimeUTC}

\* SELECT id FROM meetings WHERE event_type_id = ? AND status = 'scheduled'
\*   AND start_time < ? AND end_time > ?
ConflictingBookings(id, startTimeUTC, endTimeUTC) ==
    {i \in MeetingIds : /\ meetings[i].event_type_id = id
                        /\ meetings[i].status = "scheduled"
                        /\ meetings[i].start_time < endTimeUTC
                        /\ meetings[i].end_time > startTimeUTC}

-----------------------------------------------------------------------------
(* GET /api/booking/slots/:eventSlug *)

\* a nullable column or field: <<>> is NULL/undefined, <<v>> holds v
Truthy(v) == v # <<>>

\* existingBookings.some(booking => slotStartUTC.isBefore(bookingEnd) &&
\*                                  slotEndUTC.isAfter(bookingStart))
HasConflict(slotStartUTC, slotEndUTC, existingBookings) ==
    \E i \in existingBookings : /\ slotStartUTC.t < meetings[i].end_time
                                /\ slotEndUTC.t > meetings[i].start_time

\* the past test with isSameOrBefore
IsPast_OrNow(slotStartUTC) == slotStartUTC.t <= now

\* slotStartUTC.isBefore(moment.utc())
IsPast(slotStartUTC) == slotStartUTC.t < now

\* the pushed object with its end formatted in the requested timezone
SlotOf_EndInViewerZone(slotStart, slotEnd, timezone) ==
    [start |-> Format(slotStart), end |-> slotEnd.t + Offset(timezone),
     timezone |-> timezone,
     startUTC |-> Utc(slotStart).t, endUTC |-> Utc(slotEnd).t]

\* the object pushed to slots; startUTC and endUTC record the loop's
\* slotStartUTC and slotEndUTC for that object (they are not sent)
SlotOf(slotStart, slotEnd, timezone) ==
    [start |-> Format(slotStart), end |-> Format(slotEnd), timezone |-> timezone,
     startUTC |-> Utc(slotStart).t, endUTC |-> Utc(slotEnd).t]

\* the loop that goes on while the slot start is before the range end, whether
\* the slot ends in the range or not
RECURSIVE SlotLoop_StartInRange(_, _, _, _, _)
SlotLoop_StartInRange(currentSlot, endMoment, duration, existingBookings, timezone) ==
    IF currentSlot.t < endMoment.t
    THEN LET slotStart == currentSlot
             slotEnd == Add(currentSlot, duration)
             slotStartUTC == Utc(slotStart)
             slotEndUTC == Utc(slotEnd)
             hasConflict == HasConflict(slotStartUTC, slotEndUTC, existingBookings)
             isPast == IsPast(slotStartUTC)
             pushed == IF ~hasConflict /\ ~isPast
                       THEN <<SlotOf(slotStart, slotEnd, timezone)>>
                       ELSE <<>>
         IN  pushed \o SlotLoop_StartInRange(Add(currentSlot, duration), endMoment,
                                             duration, existingBookings, timezone)
    ELSE <<>>

\* while (currentSlot.clone().add(duration, 'minutes').isSameOrBefore(endMoment))
RECURSIVE SlotLoop(_, _, _, _, _)
SlotLoop(currentSlot, endMoment, duration, existingBookings, timezone) ==
    IF Add(currentSlot, duration).t <= endMoment.t
    THEN LET slotStart == currentSlot
             slotEnd == Add(currentSlot, duration)
             slotStartUTC == Utc(slotStart)
             slotEndUTC == Utc(slotEnd)
             hasConflict == HasConflict(slotStartUTC, slotEndUTC, existingBookings)
             isPast == IsPast(slotStartUTC)
             pushed == IF ~hasConflict /\ ~isPast
                       THEN <<SlotOf(slotStart, slotEnd, timezone)>>
                       ELSE <<>>
         IN  pushed \o SlotLoop(Add(currentSlot, duration), endMoment, duration,
                                existingBookings, timezone)
    ELSE <<>>

\* the blocked-date test without its negation
IsBlocked_Inverted(override) == override # {} /\ \E o \in override : o.is_available

\* if (override && !override.is_available)
IsBlocked(override) == override # {} /\ \E o \in override : ~o.is_available

\* the override range added to the weekly ranges instead of replacing them
TimeRanges_Added(override, dayAvailability, timezone) ==
    IF /\ override # {}
       /\ \A o \in override : o.is_available /\ Truthy(o.start_time) /\ Truthy(o.end_time)
    THEN LET o == CHOOSE o \in override : TRUE
         IN  Append(dayAvailability,
                    [start_time |-> o.start_time[1], end_time |-> o.end_time[1],
                     timezone |-> timezone])
    ELSE dayAvailability

\* const timeRanges = override && override.is_available && override.start_time
\*                    && override.end_time ? [{...override times, timezone}] : dayAvailability
TimeRanges(override, dayAvailability, timezone) ==
    IF /\ override # {}
       /\ \A o \in override : o.is_available /\ Truthy(o.start_time) /\ Truthy(o.end_time)
    THEN LET o == CHOOSE o \in override : TRUE
         IN  <<[start_time |-> o.start_time[1], end_time |-> o.end_time[1],
                timezone |-> timezone]>>
    ELSE dayAvailability

\* for (const avail of timeRanges) { ... }
RECURSIVE RangeLoop(_, _, _, _, _)
RangeLoop(timeRanges, date, duration, existingBookings, timezone) ==
    IF timeRanges = <<>> THEN <<>>
    ELSE LET avail == Head(timeRanges)
             availTimezone == avail.timezone
             startMoment == MomentTz(DateTime(date, avail.start_time), availTimezone)
             endMoment == MomentTz(DateTime(date, avail.end_time), availTimezone)
         IN  SlotLoop(startMoment, endMoment, duration, existingBookings, timezone)
             \o RangeLoop(Tail(timeRanges), date, duration, existingBookings, timezone)

\* slots.sort((a, b) => moment(a.start).diff(moment(b.start))): Array.prototype.sort
\* is stable, equal starts keep their order
RECURSIVE InsertSorted(_, _)
InsertSorted(s, x) ==
    IF s = <<>> THEN <<x>>
    ELSE IF Head(s).start <= x.start THEN <<Head(s)>> \o InsertSorted(Tail(s), x)
    ELSE <<x>> \o s

\* the slots sent in the order the ranges produced them, without the sort
SortSlots_Unsorted(s) == s

RECURSIVE SortSlots(_)
SortSlots(s) ==
    IF s = <<>> THEN <<>>
    ELSE InsertSorted(SortSlots(SubSeq(s, 1, Len(s) - 1)), s[Len(s)])

\* the handler with the override looked up before the weekday filter: an open
\* override gives its range to a weekday without rules
GetSlots_OverrideFirst(eventSlug, date, timezone) ==
    LET found == EventTypeBySlug(eventSlug)
    IN
    IF found = {} THEN [status |-> 404, slots |-> <<>>]
    ELSE
    LET eventType == CHOOSE et \in found : TRUE
        avail == AvailabilityOf(eventType.id)
        requestedDate == MomentTz(DateTime(date, 0), timezone)
        dayOfWeek == Day(requestedDate)
        dayAvailability == SelectSeq(avail, LAMBDA a : a.day_of_week = dayOfWeek)
        override == OverrideOf(eventType.id, date)
        startOfDay == Utc(StartOfDay(requestedDate))
        endOfDay == Utc(EndOfDay(requestedDate))
        existingBookings == ExistingBookings(eventType.id, startOfDay, endOfDay)
        duration == eventType.duration_minutes
        timeRanges == TimeRanges(override, dayAvailability, timezone)
    IN
    IF Len(avail) = 0 THEN [status |-> 200, slots |-> <<>>]
    ELSE IF Len(timeRanges) = 0 THEN [status |-> 200, slots |-> <<>>]
    ELSE IF IsBlocked(override) THEN [status |-> 200, slots |-> <<>>]
    ELSE [status |-> 200,
          slots |-> SortSlots(RangeLoop(timeRanges, date, duration,
                                        existingBookings, timezone))]

\* the handler: the response to GET /slots/:eventSlug?date=&timezone=, for a
\* request that carries a date (a request without one is answered 400 before
\* anything is read)
GetSlots(eventSlug, date, timezone) ==
    LET found == EventTypeBySlug(eventSlug)
    IN
    IF found = {} THEN [status |-> 404, slots |-> <<>>]
    ELSE
    LET eventType == CHOOSE et \in found : TRUE
        avail == AvailabilityOf(eventType.id)
        requestedDate == MomentTz(DateTime(date, 0), timezone)
        dayOfWeek == Day(requestedDate)
        dayAvailability == SelectSeq(avail, LAMBDA a : a.day_of_week = dayOfWeek)
        override == OverrideOf(eventType.id, date)
        startOfDay == Utc(StartOfDay(requestedDate))
        endOfDay == Utc(EndOfDay(requestedDate))
        existingBookings == ExistingBookings(eventType.id, startOfDay, endOfDay)
        duration == eventType.duration_minutes
        timeRanges == TimeRanges(override, dayAvailability, timezone)
    IN
    IF Len(avail) = 0 THEN [status |-> 200, slots |-> <<>>]
    ELSE IF Len(dayAvailability) = 0 THEN [status |-> 200, slots |-> <<>>]
    ELSE IF IsBlocked(override) THEN [status |-> 200, slots |-> <<>>]
    ELSE [status |-> 200,
          slots |-> SortSlots(RangeLoop(timeRanges, date, duration,
                                        existingBookings, timezone))]

\* the route with its slots array kept from one call to the next
GenerateSlots_SharedSlots(eventSlug, date, timezone) ==
    /\ slotsCall' = [eventSlug |-> eventSlug, date |-> date, timezone |-> timezone,
                     res |-> [status |-> GetSlots(eventSlug, date, timezone).status,
                              slots |-> slotsCall.res.slots
                                        \o GetSlots(eventSlug, date, timezone).slots]]
    /\ UNCHANGED <<saveVars, eventTypeVars>>
    /\ UNCHANGED <<event_types, availability, overrides, meetings, now, loop, pc, body,
                   locals, response, cpc, cid, cresponse>>

\* one call of the route
GenerateSlots(eventSlug, date, timezone) ==
    /\ slotsCall' = [eventSlug |-> eventSlug, date |-> date, timezone |-> timezone,
                     res |-> GetSlots(eventSlug, date, timezone)]
    /\ UNCHANGED <<saveVars, eventTypeVars>>
    /\ UNCHANGED <<event_types, availability, overrides, meetings, now, loop, pc, body,
                   locals, response, cpc, cid, cresponse>>

-----------------------------------------------------------------------------
(* GET /api/booking/slots/:eventSlug, turn by turn: the same handler with the *)
(* for and while loops taken one turn at a time                               *)

\* no request is being followed
NoLoop == [pc |-> "idle", eventSlug |-> "", date |-> 0, timezone |-> "",
           duration |-> 0, existingBookings |-> {}, timeRanges |-> <<>>,
           currentSlot |-> MomentTz(0, "UTC"), endMoment |-> MomentTz(0, "UTC"),
           slots |-> <<>>, turns |-> 0, res |-> [status |-> 0, slots |-> <<>>]]

\* turns of one while loop that are followed
MaxTurns == DayLen + 1

\* the handler up to const timeRanges = ...
SlotsBegin(eventSlug, date, timezone) ==
    /\ loop.pc = "idle"
    /\ LET found == EventTypeBySlug(eventSlug)
           call == [NoLoop EXCEPT !.eventSlug = eventSlug, !.date = date,
                                  !.timezone = timezone, !.pc = "done"]
       IN  IF found = {}
           THEN loop' = [call EXCEPT !.res = [status |-> 404, slots |-> <<>>]]
           ELSE
           LET eventType == CHOOSE et \in found : TRUE
               avail == AvailabilityOf(eventType.id)
               requestedDate == MomentTz(DateTime(date, 0), timezone)
               dayOfWeek == Day(requestedDate)
               dayAvailability == SelectSeq(avail, LAMBDA a : a.day_of_week = dayOfWeek)
               override == OverrideOf(eventType.id, date)
               startOfDay == Utc(StartOfDay(requestedDate))
               endOfDay == Utc(EndOfDay(requestedDate))
           IN  IF \/ Len(avail) = 0
                  \/ Len(dayAvailability) = 0
                  \/ IsBlocked(override)
               THEN loop' = [call EXCEPT !.res = [status |-> 200, slots |-> <<>>]]
               ELSE loop' = [call EXCEPT
                                !.pc = "for",
                                !.duration = eventType.duration_minutes,
                                !.existingBookings =
                                    ExistingBookings(eventType.id, startOfDay, endOfDay),
                                !.timeRanges =
                                    TimeRanges(override, dayAvailability, timezone)]
    /\ UNCHANGED <<saveVars, eventTypeVars>>
    /\ UNCHANGED <<event_types, availability, overrides, meetings, now, pc, body,
                   locals, response, cpc, cid, cresponse, slotsCall>>

\* for (const avail of timeRanges): the next range and its startMoment and
\* endMoment; after the last range the sort and res.json(slots)
SlotsFor ==
    /\ loop.pc = "for"
    /\ IF loop.timeRanges = <<>>
       THEN loop' = [loop EXCEPT !.pc = "done",
                                 !.res = [status |-> 200,
                                          slots |-> SortSlots(loop.slots)]]
       ELSE LET avail == Head(loop.timeRanges)
                availTimezone == avail.timezone
            IN  loop' = [loop EXCEPT
                            !.pc = "while",
                            !.timeRanges = Tail(loop.timeRanges),
                            !.currentSlot =
                                MomentTz(DateTime(loop.date, avail.start_time),
                                         availTimezone),
                            !.endMoment =
                                MomentTz(DateTime(loop.date, avail.end_time),
                                         availTimezone),
                            !.turns = 0]
    /\ UNCHANGED <<saveVars, eventTypeVars>>
    /\ UNCHANGED <<event_types, availability, overrides, meetings, now, pc, body,
                   locals, response, cpc, cid, cresponse, slotsCall>>

\* the test of the while loop and, when it holds, one turn of its body
SlotsWhile ==
    /\ loop.pc = "while"
    /\ IF Add(loop.currentSlot, loop.duration).t <= loop.endMoment.t
       THEN /\ loop.turns < MaxTurns
            /\ LET slotStart == loop.currentSlot
                   slotEnd == Add(loop.currentSlot, loop.duration)
                   slotStartUTC == Utc(slotStart)
                   slotEndUTC == Utc(slotEnd)
                   hasConflict == HasConflict(slotStartUTC, slotEndUTC,
                                              loop.existingBookings)
                   isPast == IsPast(slotStartUTC)
                   pushed == IF ~hasConflict /\ ~isPast
                             THEN <<SlotOf(slotStart, slotEnd, loop.timezone)>>
                             ELSE <<>>
               IN  loop' = [loop EXCEPT
                               !.slots = loop.slots \o pushed,
                               !.currentSlot = Add(loop.currentSlot, loop.duration),
                               !.turns = loop.turns + 1]
       ELSE loop' = [loop EXCEPT !.pc = "for"]
    /\ UNCHANGED <<saveVars, eventTypeVars>>
    /\ UNCHANGED <<event_types, availability, overrides, meetings, now, pc, body,
                   locals, response, cpc, cid, cresponse, slotsCall>>

-----------------------------------------------------------------------------
(* POST /api/booking *)

NoEventType == [id |-> 0, slug |-> "", duration_minutes |-> 0]
NoLocals == [eventType |-> NoEventType, startTimeUTC |-> 0, endTimeUTC |-> 0,
             insertId |-> 0]
NoBody == [eventSlug |-> "", inviteeName |-> "", inviteeEmail |-> "",
           startTime |-> <<>>, timezone |-> ""]
NoResponse == [status |-> 0, meeting |-> <<>>]

\* if (!eventSlug || !inviteeName || !inviteeEmail || !startTime || !timezone)
MissingField(b) ==
    \/ b.eventSlug = ""
    \/ b.inviteeName = ""
    \/ b.inviteeEmail = ""
    \/ ~Truthy(b.startTime)
    \/ b.timezone = ""

\* startMoment = moment.tz(startTime, timezone); startMoment.utc().toDate()
StartTimeUTC(b) == Utc(MomentTz(b.startTime[1], b.timezone)).t

\* endMoment = startMoment.clone().add(eventType.duration_minutes, 'minutes')
EndTimeUTC(b, eventType) ==
    Utc(Add(MomentTz(b.startTime[1], b.timezone), eventType.duration_minutes)).t

\* the row of INSERT INTO meetings (...) VALUES (?, ?, ?, ?, ?, ?, 'scheduled')
MeetingRow(b, l) ==
    [event_type_id |-> l.eventType.id, invitee_name |-> b.inviteeName,
     invitee_email |-> b.inviteeEmail, start_time |-> l.startTimeUTC,
     end_time |-> l.endTimeUTC, timezone |-> b.timezone, status |-> "scheduled"]

\* validation, then SELECT * FROM event_types WHERE slug = ?, then the times
BookingReceive(r, b) ==
    /\ pc[r] = "idle"
    /\ body' = [body EXCEPT ![r] = b]
    /\ IF MissingField(b)
       THEN /\ response' = [response EXCEPT ![r] = [status |-> 400, meeting |-> <<>>]]
            /\ pc' = [pc EXCEPT ![r] = "done"]
            /\ UNCHANGED locals
       ELSE IF EventTypeBySlug(b.eventSlug) = {}
       THEN /\ response' = [response EXCEPT ![r] = [status |-> 404, meeting |-> <<>>]]
            /\ pc' = [pc EXCEPT ![r] = "done"]
            /\ UNCHANGED locals
       ELSE LET eventType == CHOOSE et \in EventTypeBySlug(b.eventSlug) : TRUE
            IN  /\ locals' = [locals EXCEPT ![r] =
                                 [eventType |-> eventType,
                                  startTimeUTC |-> StartTimeUTC(b),
                                  endTimeUTC |-> EndTimeUTC(b, eventType),
                                  insertId |-> 0]]
                /\ pc' = [pc EXCEPT ![r] = "check"]
                /\ UNCHANGED response
    /\ UNCHANGED <<saveVars, eventTypeVars>>
    /\ UNCHANGED <<event_types, availability, overrides, meetings, now, loop, cpc, cid,
                   cresponse, slotsCall>>

\* the conflict branch with the INSERT issued before the conflict query is read
BookingCheck_InsertFirst(r) ==
    /\ pc[r] = "check"
    /\ LET conflictingBookings ==
               ConflictingBookings(locals[r].eventType.id, locals[r].startTimeUTC,
                                   locals[r].endTimeUTC)
       IN  IF Cardinality(conflictingBookings) > 0
           THEN /\ response' = [response EXCEPT ![r] =
                                   [status |-> 409, meeting |-> <<>>]]
                /\ pc' = [pc EXCEPT ![r] = "done"]
                /\ meetings' = Append(meetings, MeetingRow(body[r], locals[r]))
           ELSE /\ pc' = [pc EXCEPT ![r] = "insert"]
                /\ UNCHANGED <<response, meetings>>
    /\ UNCHANGED <<saveVars, eventTypeVars>>
    /\ UNCHANGED <<event_types, availability, overrides, now, loop, body, locals,
                   cpc, cid, cresponse, slotsCall>>

\* the conflict branch of a handler that also refuses a start time in the past
BookingCheck_RejectPast(r) ==
    /\ pc[r] = "check"
    /\ LET conflictingBookings ==
               ConflictingBookings(locals[r].eventType.id, locals[r].startTimeUTC,
                                   locals[r].endTimeUTC)
       IN  IF Cardinality(conflictingBookings) > 0 \/ locals[r].startTimeUTC < now
           THEN /\ response' = [response EXCEPT ![r] =
                                   [status |-> 409, meeting |-> <<>>]]
                /\ pc' = [pc EXCEPT ![r] = "done"]
           ELSE /\ pc' = [pc EXCEPT ![r] = "insert"]
                /\ UNCHANGED response
    /\ UNCHANGED <<saveVars, eventTypeVars>>
    /\ UNCHANGED <<event_types, availability, overrides, meetings, now, loop, body, locals,
                   cpc, cid, cresponse, slotsCall>>

\* the conflict query and the 409 branch
BookingCheck(r) ==
    /\ pc[r] = "check"
    /\ LET conflictingBookings ==
               ConflictingBookings(locals[r].eventType.id, locals[r].startTimeUTC,
                                   locals[r].endTimeUTC)
       IN  IF Cardinality(conflictingBookings) > 0
           THEN /\ response' = [response EXCEPT ![r] =
                                   [status |-> 409, meeting |-> <<>>]]
                /\ pc' = [pc EXCEPT ![r] = "done"]
           ELSE /\ pc' = [pc EXCEPT ![r] = "insert"]
                /\ UNCHANGED response
    /\ UNCHANGED <<saveVars, eventTypeVars>>
    /\ UNCHANGED <<event_types, availability, overrides, meetings, now, loop, body, locals,
                   cpc, cid, cresponse, slotsCall>>

\* the INSERT on a table without the foreign key on event_type_id
BookingInsert_NoForeignKey(r) ==
    /\ pc[r] = "insert"
    /\ meetings' = Append(meetings, MeetingRow(body[r], locals[r]))
    /\ locals' = [locals EXCEPT ![r].insertId = Len(meetings) + 1]
    /\ pc' = [pc EXCEPT ![r] = "fetch"]
    /\ UNCHANGED <<saveVars, eventTypeVars>>
    /\ UNCHANGED <<event_types, availability, overrides, now, loop, body, response, cpc,
                   cid, cresponse, slotsCall>>

\* INSERT INTO meetings; the foreign key on event_type_id refuses the row of an
\* event type that is no longer stored, and the catch answers 500
BookingInsert(r) ==
    /\ pc[r] = "insert"
    /\ IF EventTypeById(locals[r].eventType.id) = {}
       THEN /\ response' = [response EXCEPT ![r] = [status |-> 500, meeting |-> <<>>]]
            /\ pc' = [pc EXCEPT ![r] = "done"]
            /\ UNCHANGED <<meetings, locals>>
       ELSE /\ meetings' = Append(meetings, MeetingRow(body[r], locals[r]))
            /\ locals' = [locals EXCEPT ![r].insertId = Len(meetings) + 1]
            /\ pc' = [pc EXCEPT ![r] = "fetch"]
            /\ UNCHANGED response
    /\ UNCHANGED <<saveVars, eventTypeVars>>
    /\ UNCHANGED <<event_types, availability, overrides, now, loop, body, cpc,
                   cid, cresponse, slotsCall>>

\* SELECT m.* ... WHERE m.id = ?; res.status(201).json(meeting)
BookingFetch(r) ==
    /\ pc[r] = "fetch"
    /\ response' = [response EXCEPT ![r] =
                       [status |-> 201,
                        meeting |-> IF locals[r].insertId \in MeetingIds
                                    THEN <<meetings[locals[r].insertId]>> ELSE <<>>]]
    /\ pc' = [pc EXCEPT ![r] = "done"]
    /\ UNCHANGED <<saveVars, eventTypeVars>>
    /\ UNCHANGED <<event_types, availability, overrides, meetings, now, loop, body, locals,
                   cpc, cid, cresponse, slotsCall>>

-----------------------------------------------------------------------------
(* PATCH /api/meetings/:id/cancel *)

\* the handler without the already-cancelled branch
CancelReceive_NoStatusCheck(c, id) ==
    /\ cpc[c] = "idle"
    /\ cid' = [cid EXCEPT ![c] = id]
    /\ IF id \notin MeetingIds
       THEN /\ cresponse' = [cresponse EXCEPT ![c] = 404]
            /\ cpc' = [cpc EXCEPT ![c] = "done"]
       ELSE /\ cpc' = [cpc EXCEPT ![c] = "update"]
            /\ UNCHANGED cresponse
    /\ UNCHANGED <<saveVars, eventTypeVars>>
    /\ UNCHANGED <<event_types, availability, overrides, meetings, now, loop, pc, body,
                   locals, response, slotsCall>>

\* SELECT * FROM meetings WHERE id = ?, the 404 and the already-cancelled branch
CancelReceive(c, id) ==
    /\ cpc[c] = "idle"
    /\ cid' = [cid EXCEPT ![c] = id]
    /\ IF id \notin MeetingIds
       THEN /\ cresponse' = [cresponse EXCEPT ![c] = 404]
            /\ cpc' = [cpc EXCEPT ![c] = "done"]
       ELSE IF meetings[id].status = "cancelled"
       THEN /\ cresponse' = [cresponse EXCEPT ![c] = 400]
            /\ cpc' = [cpc EXCEPT ![c] = "done"]
       ELSE /\ cpc' = [cpc EXCEPT ![c] = "update"]
            /\ UNCHANGED cresponse
    /\ UNCHANGED <<saveVars, eventTypeVars>>
    /\ UNCHANGED <<event_types, availability, overrides, meetings, now, loop, pc, body,
                   locals, response, slotsCall>>

\* UPDATE meetings SET status = "cancelled" WHERE id = ?, then the row is sent
CancelUpdate(c) ==
    /\ cpc[c] = "update"
    /\ meetings' = [meetings EXCEPT ![cid[c]].status = "cancelled"]
    /\ cresponse' = [cresponse EXCEPT ![c] = 200]
    /\ cpc' = [cpc EXCEPT ![c] = "done"]
    /\ UNCHANGED <<saveVars, eventTypeVars>>
    /\ UNCHANGED <<event_types, availability, overrides, now, loop, pc, body, locals,
                   response, cid, slotsCall>>

-----------------------------------------------------------------------------
(* /api/availability *)

NoSaveBody == [eventTypeId |-> <<>>, isArray |-> FALSE, availability |-> <<>>]
NoTx == [deleted |-> FALSE, old |-> <<>>, inserted |-> <<>>]
NoSaveResponse == [status |-> 0, rows |-> <<>>]
NoRead == [eventTypeId |-> 0, rows |-> <<>>]

\* availability rows other than those of event type id
OtherAvailability(id) == SelectSeq(availability, LAMBDA a : a.event_type_id # id)

\* ORDER BY day_of_week, start_time: the orders in which the rows can be sent
\* (the order of rows with equal day_of_week and start_time is not determined)
OrderedRules(rows) ==
    LET n == Len(rows)
        perms == {f \in [1..n -> 1..n] : \A i, j \in 1..n : i # j => f[i] # f[j]}
        ordered(q) ==
            \A i, j \in 1..n :
                i < j => \/ q[i].day_of_week < q[j].day_of_week
                         \/ /\ q[i].day_of_week = q[j].day_of_week
                            /\ q[i].start_time <= q[j].start_time
    IN  {q \in {[i \in 1..n |-> rows[f[i]]] : f \in perms} : ordered(q)}

\* GET /api/availability/:eventTypeId
ReadAvailability(eventTypeId) ==
    /\ \E q \in OrderedRules(AvailabilityOf(eventTypeId)) :
           rread' = [eventTypeId |-> eventTypeId, rows |-> q]
    /\ UNCHANGED <<spc, sbody, stx, sresponse, eventTypeVars>>
    /\ UNCHANGED <<event_types, availability, overrides, meetings, now, loop, pc, body,
                   locals, response, cpc, cid, cresponse, slotsCall>>

\* POST /api/availability: the checks before the transaction
SaveReceive(s, b) ==
    /\ spc[s] = "idle"
    /\ sbody' = [sbody EXCEPT ![s] = b]
    /\ IF ~Truthy(b.eventTypeId) \/ ~b.isArray
       THEN /\ sresponse' = [sresponse EXCEPT ![s] = [status |-> 400, rows |-> <<>>]]
            /\ spc' = [spc EXCEPT ![s] = "done"]
       ELSE IF EventTypeById(b.eventTypeId[1]) = {}
       THEN /\ sresponse' = [sresponse EXCEPT ![s] = [status |-> 404, rows |-> <<>>]]
            /\ spc' = [spc EXCEPT ![s] = "done"]
       ELSE /\ spc' = [spc EXCEPT ![s] = "delete"]
            /\ UNCHANGED sresponse
    /\ UNCHANGED <<stx, rread, eventTypeVars>>
    /\ UNCHANGED <<event_types, availability, overrides, meetings, now, loop, pc, body,
                   locals, response, cpc, cid, cresponse, slotsCall>>

\* the DELETE issued on the pool outside the transaction: it is committed at once
SaveDelete_Autocommit(s) ==
    /\ spc[s] = "delete"
    /\ availability' = OtherAvailability(sbody[s].eventTypeId[1])
    /\ spc' = [spc EXCEPT ![s] = "insert"]
    /\ UNCHANGED <<sbody, stx, sresponse, rread, eventTypeVars>>
    /\ UNCHANGED <<event_types, overrides, meetings, now, loop, pc, body,
                   locals, response, cpc, cid, cresponse, slotsCall>>

\* save t is in its transaction, on event type id
TxHolds(t, id) ==
    /\ spc[t] = "insert"
    /\ sbody[t].eventTypeId[1] = id

\* InnoDB record locks (REPEATABLE READ, the level of a connection that sets
\* none): the DELETE of save s waits while another open transaction holds
\* rows of the event type, deleted or inserted and not yet committed
RowsLocked(s, id) ==
    \E t \in Savers \ {s} :
        /\ TxHolds(t, id)
        /\ stx[t].deleted
        /\ (stx[t].old # <<>> \/ stx[t].inserted # <<>>)

\* a connection in READ COMMITTED: a DELETE that matches no row locks nothing
GapLocked_ReadCommitted(s, id) ==
    \E t \in Savers \ {s} :
        /\ TxHolds(t, id)
        /\ stx[t].deleted
        /\ stx[t].old # <<>>

\* InnoDB gap locks: the DELETE of an open transaction locks the index range of
\* the event type, rows or none, against the INSERT of another transaction
GapLocked(s, id) ==
    \E t \in Savers \ {s} : TxHolds(t, id) /\ stx[t].deleted

\* beginTransaction, then DELETE FROM availability WHERE event_type_id = ? on the
\* connection of the transaction: the rows stay visible to the other
\* connections until the commit
SaveDelete(s) ==
    /\ spc[s] = "delete"
    /\ ~RowsLocked(s, sbody[s].eventTypeId[1])
    /\ stx' = [stx EXCEPT ![s].deleted = TRUE,
                          ![s].old = AvailabilityOf(sbody[s].eventTypeId[1])]
    /\ spc' = [spc EXCEPT ![s] = "insert"]
    /\ UNCHANGED <<sbody, sresponse, rread, eventTypeVars>>
    /\ UNCHANGED <<event_types, availability, overrides, meetings, now, loop, pc, body,
                   locals, response, cpc, cid, cresponse, slotsCall>>

\* if (dayOfWeek === undefined || !startTime || !endTime)
InvalidAvail(avail) ==
    ~Truthy(avail.dayOfWeek) \/ ~Truthy(avail.startTime) \/ ~Truthy(avail.endTime)

\* the row of INSERT INTO availability (...) VALUES (?, ?, ?, ?, ?)
AvailabilityRow(eventTypeId, avail) ==
    [event_type_id |-> eventTypeId, day_of_week |-> avail.dayOfWeek[1],
     start_time |-> avail.startTime[1], end_time |-> avail.endTime[1],
     timezone |-> IF Truthy(avail.timezone) THEN avail.timezone[1] ELSE "UTC"]

\* UNIQUE KEY unique_availability: row has the key of a row of q
DuplicateKey(q, row) ==
    \E i \in 1..Len(q) :
        <<q[i].event_type_id, q[i].day_of_week, q[i].start_time, q[i].end_time>>
        = <<row.event_type_id, row.day_of_week, row.start_time, row.end_time>>

\* the rows of event type id as the transaction of s sees them
TxRows(s, id) ==
    (IF stx[s].deleted THEN <<>> ELSE AvailabilityOf(id)) \o stx[s].inserted

\* the table once the transaction of s is committed: without the rows its
\* DELETE matched, with the rows it inserted
AfterCommit(s) ==
    SelectSeq(availability,
              LAMBDA a : \A i \in 1..Len(stx[s].old) : a # stx[s].old[i])
    \o stx[s].inserted

\* the catch without the rollback: the connection goes back to the pool and the
\* work of the transaction is committed with it
SaveFail_Commit(s) ==
    /\ availability' = AfterCommit(s)
    /\ stx' = [stx EXCEPT ![s] = NoTx]
    /\ sresponse' = [sresponse EXCEPT ![s] = [status |-> 500, rows |-> <<>>]]
    /\ spc' = [spc EXCEPT ![s] = "done"]

\* the catch of the transaction: connection.rollback(), then the 500 of the
\* outer catch
SaveFail(s) ==
    /\ stx' = [stx EXCEPT ![s] = NoTx]
    /\ sresponse' = [sresponse EXCEPT ![s] = [status |-> 500, rows |-> <<>>]]
    /\ spc' = [spc EXCEPT ![s] = "done"]
    /\ UNCHANGED availability

\* one turn of for (const avail of availability): the check of the row and its
\* INSERT, which the foreign key and the unique key of the table can refuse
SaveInsert(s) ==
    /\ spc[s] = "insert"
    /\ Len(stx[s].inserted) < Len(sbody[s].availability)
    /\ LET eventTypeId == sbody[s].eventTypeId[1]
           avail == sbody[s].availability[Len(stx[s].inserted) + 1]
       IN  IF InvalidAvail(avail)
           THEN SaveFail(s)
           ELSE IF \/ EventTypeById(eventTypeId) = {}
                   \/ DuplicateKey(TxRows(s, eventTypeId),
                                   AvailabilityRow(eventTypeId, avail))
           THEN SaveFail(s)
           ELSE /\ ~GapLocked(s, eventTypeId)
                /\ stx' = [stx EXCEPT ![s].inserted =
                              Append(@, AvailabilityRow(eventTypeId, avail))]
                /\ UNCHANGED <<availability, sresponse, spc>>
    /\ UNCHANGED <<sbody, rread, eventTypeVars>>
    /\ UNCHANGED <<event_types, overrides, meetings, now, loop, pc, body,
                   locals, response, cpc, cid, cresponse, slotsCall>>

\* a statement of the transaction of s that waits for a lock is given up by
\* InnoDB (ER_LOCK_DEADLOCK when two transactions wait for each other, an
\* INSERT of s against the DELETE that waits for the rows of s included;
\* ER_LOCK_WAIT_TIMEOUT otherwise): the catch rolls back
SaveLockFail(s) ==
    /\ LET id == sbody[s].eventTypeId[1]
       IN  \/ spc[s] = "delete" /\ RowsLocked(s, id)
           \/ /\ spc[s] = "insert"
              /\ Len(stx[s].inserted) < Len(sbody[s].availability)
              /\ \/ GapLocked(s, id)
                 \/ \E t \in Savers \ {s} :
                        /\ spc[t] = "delete"
                        /\ sbody[t].eventTypeId[1] = id
                        /\ RowsLocked(t, id)
    /\ SaveFail(s)
    /\ UNCHANGED <<sbody, rread, eventTypeVars>>
    /\ UNCHANGED <<event_types, overrides, meetings, now, loop, pc, body,
                   locals, response, cpc, cid, cresponse, slotsCall>>

\* connection.commit(): the delete and the inserts become visible together
SaveCommit(s) ==
    /\ spc[s] = "insert"
    /\ Len(stx[s].inserted) = Len(sbody[s].availability)
    /\ availability' = AfterCommit(s)
    /\ stx' = [stx EXCEPT ![s] = NoTx]
    /\ spc' = [spc EXCEPT ![s] = "fetch"]
    /\ UNCHANGED <<sbody, sresponse, rread, eventTypeVars>>
    /\ UNCHANGED <<event_types, overrides, meetings, now, loop, pc, body,
                   locals, response, cpc, cid, cresponse, slotsCall>>

\* SELECT * FROM availability WHERE event_type_id = ? ORDER BY ...; res.json(updated)
SaveFetch(s) ==
    /\ spc[s] = "fetch"
    /\ \E q \in OrderedRules(AvailabilityOf(sbody[s].eventTypeId[1])) :
           sresponse' = [sresponse EXCEPT ![s] = [status |-> 200, rows |-> q]]
    /\ spc' = [spc EXCEPT ![s] = "done"]
    /\ UNCHANGED <<sbody, stx, rread, eventTypeVars>>
    /\ UNCHANGED <<event_types, availability, overrides, meetings, now, loop, pc, body,
                   locals, response, cpc, cid, cresponse, slotsCall>>

-----------------------------------------------------------------------------
(* /api/event-types.  Of the columns of event_types the model keeps id, slug *)
(* and duration_minutes; of a request body it keeps name, slug and            *)
(* duration_minutes.                                                          *)

\* id: req.params.id of an update or a delete, result.insertId of a create
NoEventTypeBody ==
    [op |-> "", id |-> 0, name |-> <<>>, slug |-> <<>>, duration_minutes |-> <<>>]
NoEventTypeResponse == [status |-> 0, eventType |-> <<>>]

\* !v for a string field and for a number field
FalsyText(v) == v = <<>> \/ v[1] = ""
FalsyNumber(v) == v = <<>> \/ v[1] = 0

\* id INT AUTO_INCREMENT PRIMARY KEY
NewEventTypeId ==
    IF event_types = {} THEN 1
    ELSE (CHOOSE i \in {et.id : et \in event_types} :
              \A et \in event_types : et.id <= i) + 1

\* SELECT * FROM event_types WHERE id = ?, as the response carries it
FetchEventType(id) ==
    IF EventTypeById(id) = {} THEN <<>> ELSE <<CHOOSE et \in EventTypeById(id) : TRUE>>

\* slug VARCHAR(255) NOT NULL UNIQUE: another row than id has the slug
SlugTaken(slug, id) == \E et \in event_types : et.slug = slug /\ et.id # id

\* InnoDB row locks of the open transactions of the availability save: the
\* foreign-key check of an INSERT holds the event type row shared, the DELETE
\* holds the availability rows it matched, both until the transaction ends
ParentLocked(id) ==
    \E s \in Savers : /\ spc[s] = "insert"
                      /\ sbody[s].eventTypeId[1] = id
                      /\ stx[s].inserted # <<>>

ChildLocked(id) ==
    \E s \in Savers : /\ spc[s] = "insert"
                      /\ sbody[s].eventTypeId[1] = id
                      /\ stx[s].deleted
                      /\ Len(AvailabilityOf(id)) > 0

EventTypeRespond(e, status, eventType) ==
    /\ eresponse' = [eresponse EXCEPT ![e] = [status |-> status, eventType |-> eventType]]
    /\ epc' = [epc EXCEPT ![e] = "done"]

\* POST /api/event-types: validation and the slug query
CreateReceive(e, b) ==
    /\ epc[e] = "idle"
    /\ b.op = "create"
    /\ ebody' = [ebody EXCEPT ![e] = b]
    /\ IF FalsyText(b.name) \/ FalsyText(b.slug) \/ FalsyNumber(b.duration_minutes)
       THEN EventTypeRespond(e, 400, <<>>)
       ELSE IF EventTypeBySlug(b.slug[1]) # {}
       THEN EventTypeRespond(e, 400, <<>>)
       ELSE /\ epc' = [epc EXCEPT ![e] = "insert"]
            /\ UNCHANGED eresponse
    /\ UNCHANGED <<saveVars, event_types, availability, overrides, meetings, now, loop, pc,
                   body, locals, response, cpc, cid, cresponse, slotsCall>>

\* the INSERT on a table without the unique key on slug
CreateInsert_NoUniqueKey(e) ==
    /\ epc[e] = "insert"
    /\ event_types' = event_types \cup
           {[id |-> NewEventTypeId, slug |-> ebody[e].slug[1],
             duration_minutes |-> ebody[e].duration_minutes[1]]}
    /\ ebody' = [ebody EXCEPT ![e].id = NewEventTypeId]
    /\ epc' = [epc EXCEPT ![e] = "fetch"]
    /\ UNCHANGED eresponse
    /\ UNCHANGED <<saveVars, availability, overrides, meetings, now, loop, pc,
                   body, locals, response, cpc, cid, cresponse, slotsCall>>

\* INSERT INTO event_types; ER_DUP_ENTRY is answered 400
CreateInsert(e) ==
    /\ epc[e] = "insert"
    /\ IF EventTypeBySlug(ebody[e].slug[1]) # {}
       THEN /\ EventTypeRespond(e, 400, <<>>)
            /\ UNCHANGED <<event_types, ebody>>
       ELSE /\ event_types' = event_types \cup
                   {[id |-> NewEventTypeId, slug |-> ebody[e].slug[1],
                     duration_minutes |-> ebody[e].duration_minutes[1]]}
            /\ ebody' = [ebody EXCEPT ![e].id = NewEventTypeId]
            /\ epc' = [epc EXCEPT ![e] = "fetch"]
            /\ UNCHANGED eresponse
    /\ UNCHANGED <<saveVars, availability, overrides, meetings, now, loop, pc,
                   body, locals, response, cpc, cid, cresponse, slotsCall>>

\* SELECT * FROM event_types WHERE id = ?; res.status(201).json(newEventType)
CreateFetch(e) ==
    /\ epc[e] = "fetch"
    /\ ebody[e].op = "create"
    /\ EventTypeRespond(e, 201, FetchEventType(ebody[e].id))
    /\ UNCHANGED <<saveVars, ebody, event_types, availability, overrides, meetings, now, loop,
                   pc, body, locals, response, cpc, cid, cresponse, slotsCall>>

\* PUT /api/event-types/:id: the query for the row
UpdateReceive(e, b) ==
    /\ epc[e] = "idle"
    /\ b.op = "update"
    /\ ebody' = [ebody EXCEPT ![e] = b]
    /\ IF EventTypeById(b.id) = {}
       THEN EventTypeRespond(e, 404, <<>>)
       ELSE /\ epc' = [epc EXCEPT ![e] = "slug"]
            /\ UNCHANGED eresponse
    /\ UNCHANGED <<saveVars, event_types, availability, overrides, meetings, now, loop, pc,
                   body, locals, response, cpc, cid, cresponse, slotsCall>>

\* if (slug && slug !== existing.slug) with existing = {id}: the slug query runs
\* for every slug sent; then the list of updates is built
UpdateSlugCheck(e) ==
    /\ epc[e] = "slug"
    /\ IF ~FalsyText(ebody[e].slug) /\ SlugTaken(ebody[e].slug[1], ebody[e].id)
       THEN EventTypeRespond(e, 400, <<>>)
       ELSE IF /\ ebody[e].name = <<>>
               /\ ebody[e].slug = <<>>
               /\ ebody[e].duration_minutes = <<>>
       THEN EventTypeRespond(e, 400, <<>>)
       ELSE /\ epc' = [epc EXCEPT ![e] = "update"]
            /\ UNCHANGED eresponse
    /\ UNCHANGED <<saveVars, ebody, event_types, availability, overrides, meetings, now, loop,
                   pc, body, locals, response, cpc, cid, cresponse, slotsCall>>

\* the row of id after SET slug = ?, duration_minutes = ? for the fields sent
UpdatedRow(et, b) ==
    [id |-> et.id,
     slug |-> IF b.slug # <<>> THEN b.slug[1] ELSE et.slug,
     duration_minutes |-> IF b.duration_minutes # <<>> THEN b.duration_minutes[1]
                          ELSE et.duration_minutes]

\* the UPDATE followed by a resize of the meetings of the event type to its
\* duration_minutes
UpdateWrite_ResizeMeetings(e) ==
    /\ epc[e] = "update"
    /\ ~ParentLocked(ebody[e].id)
    /\ IF /\ EventTypeById(ebody[e].id) # {}
          /\ ebody[e].slug # <<>>
          /\ SlugTaken(ebody[e].slug[1], ebody[e].id)
       THEN /\ EventTypeRespond(e, 400, <<>>)
            /\ UNCHANGED <<event_types, meetings>>
       ELSE /\ event_types' = {IF et.id = ebody[e].id THEN UpdatedRow(et, ebody[e])
                               ELSE et : et \in event_types}
            /\ meetings' = [i \in 1..Len(meetings) |->
                               IF /\ meetings[i].event_type_id = ebody[e].id
                                  /\ ebody[e].duration_minutes # <<>>
                               THEN [meetings[i] EXCEPT !.end_time =
                                        meetings[i].start_time
                                        + ebody[e].duration_minutes[1]]
                               ELSE meetings[i]]
            /\ epc' = [epc EXCEPT ![e] = "fetch"]
            /\ UNCHANGED eresponse
    /\ UNCHANGED <<saveVars, ebody, availability, overrides, now, loop,
                   pc, body, locals, response, cpc, cid, cresponse, slotsCall>>

\* UPDATE event_types SET ... WHERE id = ?; ER_DUP_ENTRY is answered 400
UpdateWrite(e) ==
    /\ epc[e] = "update"
    /\ ~ParentLocked(ebody[e].id)
    /\ IF /\ EventTypeById(ebody[e].id) # {}
          /\ ebody[e].slug # <<>>
          /\ SlugTaken(ebody[e].slug[1], ebody[e].id)
       THEN /\ EventTypeRespond(e, 400, <<>>)
            /\ UNCHANGED event_types
       ELSE /\ event_types' = {IF et.id = ebody[e].id THEN UpdatedRow(et, ebody[e])
                               ELSE et : et \in event_types}
            /\ epc' = [epc EXCEPT ![e] = "fetch"]
            /\ UNCHANGED eresponse
    /\ UNCHANGED <<saveVars, ebody, availability, overrides, meetings, now, loop,
                   pc, body, locals, response, cpc, cid, cresponse, slotsCall>>

\* SELECT * FROM event_types WHERE id = ?; res.json(updated)
UpdateFetch(e) ==
    /\ epc[e] = "fetch"
    /\ ebody[e].op = "update"
    /\ EventTypeRespond(e, 200, FetchEventType(ebody[e].id))
    /\ UNCHANGED <<saveVars, ebody, event_types, availability, overrides, meetings, now, loop,
                   pc, body, locals, response, cpc, cid, cresponse, slotsCall>>

\* DELETE /api/event-types/:id: the query for the row
DeleteReceive(e, b) ==
    /\ epc[e] = "idle"
    /\ b.op = "delete"
    /\ ebody' = [ebody EXCEPT ![e] = b]
    /\ IF EventTypeById(b.id) = {}
       THEN EventTypeRespond(e, 404, <<>>)
       ELSE /\ epc' = [epc EXCEPT ![e] = "delete"]
            /\ UNCHANGED eresponse
    /\ UNCHANGED <<saveVars, event_types, availability, overrides, meetings, now, loop, pc,
                   body, locals, response, cpc, cid, cresponse, slotsCall>>

\* a row of meetings that was deleted: ids are AUTO_INCREMENT and not used
\* again, the position of the row stays taken
DeletedMeeting ==
    [event_type_id |-> 0, invitee_name |-> "", invitee_email |-> "",
     start_time |-> 0, end_time |-> 0, timezone |-> "", status |-> "deleted"]

\* DELETE FROM event_types WHERE id = ?, with the ON DELETE CASCADE of the
\* foreign keys of availability, availability_overrides and meetings
DeleteWrite(e) ==
    /\ epc[e] = "delete"
    /\ ~ParentLocked(ebody[e].id)
    /\ ~ChildLocked(ebody[e].id)
    /\ event_types' = {et \in event_types : et.id # ebody[e].id}
    /\ availability' = OtherAvailability(ebody[e].id)
    /\ overrides' = {o \in overrides : o.event_type_id # ebody[e].id}
    /\ meetings' = [i \in 1..Len(meetings) |->
                       IF meetings[i].event_type_id = ebody[e].id
                       THEN DeletedMeeting ELSE meetings[i]]
    /\ EventTypeRespond(e, 200, <<>>)
    /\ UNCHANGED <<saveVars, ebody, now, loop, pc, body, locals, response, cpc, cid,
                   cresponse, slotsCall>>

-----------------------------------------------------------------------------
(* Concurrent booking and cancellation requests *)

NoCall == [eventSlug |-> "", date |-> 0, timezone |-> "",
           res |-> [status |-> 0, slots |-> <<>>]]

\* the bodies request r may send: every field present, or one of them missing
ValidBodies(r) ==
    [eventSlug : {"a", "b", "zz"}, inviteeName : {r}, inviteeEmail : {"e"},
     startTime : {<<t>> : t \in 0..MaxStart}, timezone : Zones]

InvalidBodies(r) ==
    LET b == [eventSlug |-> "a", inviteeName |-> r, inviteeEmail |-> "e",
              startTime |-> <<0>>, timezone |-> "UTC"]
    IN  {[b EXCEPT !.eventSlug = ""], [b EXCEPT !.inviteeName = ""],
         [b EXCEPT !.inviteeEmail = ""], [b EXCEPT !.startTime = <<>>],
         [b EXCEPT !.timezone = ""]}

Bodies(r) == ValidBodies(r) \cup InvalidBodies(r)

InitRequests ==
    /\ pc = [r \in Requests |-> "idle"]
    /\ body = [r \in Requests |-> NoBody]
    /\ locals = [r \in Requests |-> NoLocals]
    /\ response = [r \in Requests |-> NoResponse]
    /\ cpc = [c \in Cancellers |-> "idle"]
    /\ cid = [c \in Cancellers |-> 0]
    /\ cresponse = [c \in Cancellers |-> 0]
    /\ slotsCall = NoCall
    /\ loop = NoLoop
    /\ spc = [s \in Savers |-> "idle"]
    /\ sbody = [s \in Savers |-> NoSaveBody]
    /\ stx = [s \in Savers |-> NoTx]
    /\ sresponse = [s \in Savers |-> NoSaveResponse]
    /\ rread = NoRead
    /\ epc = [e \in EventTypeRequests |-> "idle"]
    /\ ebody = [e \in EventTypeRequests |-> NoEventTypeBody]
    /\ eresponse = [e \in EventTypeRequests |-> NoEventTypeResponse]

Init ==
    /\ event_types = {[id |-> 1, slug |-> "a", duration_minutes |-> 2],
                      [id |-> 2, slug |-> "b", duration_minutes |-> 1]}
    /\ availability = <<>>
    /\ overrides = {}
    /\ meetings = <<>>
    /\ now = 0
    /\ InitRequests

\* two booking requests and one cancellation request
Next ==
    \/ \E r \in Requests : \E b \in Bodies(r) : BookingReceive(r, b)
    \/ \E r \in Requests : BookingCheck(r)
    \/ \E r \in Requests : BookingInsert(r)
    \/ \E r \in Requests : BookingFetch(r)
    \/ \E c \in {"c1"} : \E id \in 1..(Len(meetings) + 1) : CancelReceive(c, id)
    \/ \E c \in {"c1"} : CancelUpdate(c)

Spec == Init /\ [][Next]_vars

-----------------------------------------------------------------------------
(* Slot generation over stored rules, overrides and meetings *)

Durations == {1, 2}
SlotDates == {1}

\* rows the availability save can have stored (it stores any row it is sent):
\* Tuesday ranges in two zones, a Wednesday range, a range of another event type
RuleRows ==
    {[event_type_id |-> 1, day_of_week |-> 2, start_time |-> 0, end_time |-> 2,
      timezone |-> "UTC"],
     [event_type_id |-> 1, day_of_week |-> 2, start_time |-> 1, end_time |-> 3,
      timezone |-> "East"],
     [event_type_id |-> 1, day_of_week |-> 2, start_time |-> 0, end_time |-> 3,
      timezone |-> "UTC"],
     [event_type_id |-> 1, day_of_week |-> 3, start_time |-> 0, end_time |-> 2,
      timezone |-> "UTC"],
     [event_type_id |-> 2, day_of_week |-> 2, start_time |-> 0, end_time |-> 2,
      timezone |-> "UTC"]}

\* sequences without repetition of at most n elements of S
RECURSIVE ListsOf(_, _)
ListsOf(S, n) ==
    IF n = 0 THEN {<<>>}
    ELSE LET shorter == ListsOf(S, n - 1)
         IN  shorter \cup {Append(q, x) : q \in {p \in shorter : Len(p) = n - 1},
                                          x \in S}

\* UNIQUE KEY unique_availability (event_type_id, day_of_week, start_time, end_time)
Distinct(q) ==
    \A i, j \in 1..Len(q) :
        i # j => <<q[i].event_type_id, q[i].day_of_week, q[i].start_time, q[i].end_time>>
                 # <<q[j].event_type_id, q[j].day_of_week, q[j].start_time, q[j].end_time>>

RuleLists == {q \in ListsOf(RuleRows, MaxRules) : Distinct(q)}

\* rows of availability_overrides: a blocked date, a date with its own range, a
\* date marked available without times, a blocked other date
OverrideRows ==
    UNION {{[event_type_id |-> 1, override_date |-> d, is_available |-> FALSE,
             start_time |-> <<>>, end_time |-> <<>>],
            [event_type_id |-> 1, override_date |-> d, is_available |-> TRUE,
             start_time |-> <<1>>, end_time |-> <<3>>],
            [event_type_id |-> 1, override_date |-> d, is_available |-> TRUE,
             start_time |-> <<>>, end_time |-> <<>>],
            [event_type_id |-> 1, override_date |-> d + 1, is_available |-> FALSE,
             start_time |-> <<>>, end_time |-> <<>>]} : d \in SlotDates}

\* meetings that bookings (of any start time, at the duration the event type had
\* then) and cancellations can have stored around the start of a called date
StoredMeeting(id, start, len, status) ==
    [event_type_id |-> id, invitee_name |-> "x", invitee_email |-> "e",
     start_time |-> start, end_time |-> start + len, timezone |-> "UTC",
     status |-> status]

MeetingRows ==
    UNION {{StoredMeeting(1, s * DayLen + d, len, "scheduled") :
                d \in {-1, 0, 1}, len \in Durations}
           \cup {StoredMeeting(1, s * DayLen, 2, "cancelled"),
                 StoredMeeting(2, s * DayLen, 2, "scheduled")} : s \in SlotDates}

MeetingLists == ListsOf(MeetingRows, MaxMeetings)

SlotRequests ==
    [eventSlug : {"a"}, date : SlotDates, timezone : Zones]
    \cup [eventSlug : {"zz"}, date : SlotDates, timezone : {"UTC"}]

InitSlots ==
    /\ \E d \in Durations :
           event_types = {[id |-> 1, slug |-> "a", duration_minutes |-> d],
                          [id |-> 2, slug |-> "b", duration_minutes |-> 1]}
    /\ availability \in RuleLists
    /\ overrides \in {{}} \cup {{o} : o \in OverrideRows}
    /\ meetings \in MeetingLists
    /\ now \in {s * DayLen + d : s \in SlotDates, d \in {0, 1}}
    /\ InitRequests

NextSlots ==
    \E q \in SlotRequests : GenerateSlots(q.eventSlug, q.date, q.timezone)

SpecSlots == InitSlots /\ [][NextSlots]_vars

-----------------------------------------------------------------------------
(* Slot generation for an event type with no rule, with no rule of the        *)
(* weekday, or with a duration that no range can hold                         *)

LongDurations == {1, 2, 3}

InitEmpty ==
    /\ \E d \in LongDurations :
           event_types = {[id |-> 1, slug |-> "a", duration_minutes |-> d],
                          [id |-> 2, slug |-> "b", duration_minutes |-> 1]}
    /\ availability \in RuleLists
    /\ overrides = {}
    /\ meetings = <<>>
    /\ now \in {s * DayLen : s \in SlotDates}
    /\ InitRequests

NextEmpty ==
    \E q \in SlotRequests : GenerateSlots(q.eventSlug, q.date, q.timezone)

SpecEmpty == InitEmpty /\ [][NextEmpty]_vars

-----------------------------------------------------------------------------
(* Repeated slot generation for event type a, with bookings and cancellations *)
(* of event type b between the calls                                          *)

BodiesOfB(r) ==
    {b \in ValidBodies(r) : b.eventSlug = "b" /\ b.timezone = "UTC"}

InitRepeat ==
    /\ event_types = {[id |-> 1, slug |-> "a", duration_minutes |-> 1],
                      [id |-> 2, slug |-> "b", duration_minutes |-> 1]}
    /\ availability \in ListsOf(RuleRows, 1)
    /\ overrides = {}
    /\ meetings \in ListsOf(MeetingRows, 1)
    /\ now \in {s * DayLen : s \in SlotDates}
    /\ InitRequests

NextRepeat ==
    \/ \E z \in Zones : \E d \in SlotDates : GenerateSlots("a", d, z)
    \/ \E b \in BodiesOfB("r1") : BookingReceive("r1", b)
    \/ BookingCheck("r1")
    \/ BookingInsert("r1")
    \/ BookingFetch("r1")
    \/ \E id \in {i \in MeetingIds : meetings[i].event_type_id = 2} :
           CancelReceive("c1", id)
    \/ CancelUpdate("c1")

SpecRepeat == InitRepeat /\ [][NextRepeat]_vars

-----------------------------------------------------------------------------
(* An availability save with concurrent readers of the rules *)

\* the rules stored before the save: two of event type 1, one of event type 2
InitialAvailability ==
    <<[event_type_id |-> 1, day_of_week |-> 2, start_time |-> 0, end_time |-> 2,
       timezone |-> "UTC"],
      [event_type_id |-> 2, day_of_week |-> 2, start_time |-> 0, end_time |-> 2,
       timezone |-> "UTC"],
      [event_type_id |-> 1, day_of_week |-> 3, start_time |-> 0, end_time |-> 2,
       timezone |-> "UTC"]>>

\* rows a save can carry: complete rows (one with the key of a stored rule, one
\* without timezone), rows that lack one of the three required fields, a row
\* with day 7 and a row that ends before it starts
SaveRows ==
    LET row == [dayOfWeek |-> <<2>>, startTime |-> <<0>>, endTime |-> <<2>>,
                timezone |-> <<"UTC">>]
    IN  {row,
         [row EXCEPT !.startTime = <<1>>, !.endTime = <<3>>, !.timezone = <<"East">>],
         [row EXCEPT !.endTime = <<1>>, !.timezone = <<>>],
         [row EXCEPT !.dayOfWeek = <<>>],
         [row EXCEPT !.startTime = <<>>],
         [row EXCEPT !.endTime = <<>>],
         [row EXCEPT !.dayOfWeek = <<7>>],
         [row EXCEPT !.startTime = <<2>>, !.endTime = <<1>>]}

\* the stored rules with none of event type 1
OtherAvailabilityOf1 ==
    SelectSeq(InitialAvailability, LAMBDA a : a.event_type_id # 1)

SaveBodies ==
    {[eventTypeId |-> <<1>>, isArray |-> TRUE, availability |-> q] :
         q \in ListsOf(SaveRows, MaxSaveRows)}
    \cup {[eventTypeId |-> <<>>, isArray |-> TRUE, availability |-> <<>>],
          [eventTypeId |-> <<1>>, isArray |-> FALSE, availability |-> <<>>],
          [eventTypeId |-> <<9>>, isArray |-> TRUE, availability |-> <<>>]}

InitSave ==
    /\ event_types = {[id |-> 1, slug |-> "a", duration_minutes |-> 1],
                      [id |-> 2, slug |-> "b", duration_minutes |-> 1]}
    /\ availability = InitialAvailability
    /\ overrides = {}
    /\ meetings = <<>>
    /\ now = DayLen
    /\ InitRequests

NextSave ==
    \/ \E b \in SaveBodies : SaveReceive("s1", b)
    \/ SaveDelete("s1")
    \/ SaveInsert("s1")
    \/ SaveCommit("s1")
    \/ SaveFetch("s1")
    \/ ReadAvailability(1)
    \/ GenerateSlots("a", 1, "UTC")

SpecSave == InitSave /\ [][NextSave]_vars

-----------------------------------------------------------------------------
(* Two concurrent availability saves of event type 1 *)

\* the lists of the two saves: complete rows, every list the loop can insert
\* and lists that repeat a key
ConcurrentSaveBodies ==
    LET row == [dayOfWeek |-> <<2>>, startTime |-> <<0>>, endTime |-> <<2>>,
                timezone |-> <<"UTC">>]
        rows == {row, [row EXCEPT !.startTime = <<1>>, !.endTime = <<3>>]}
    IN  {[eventTypeId |-> <<1>>, isArray |-> TRUE, availability |-> q] :
             q \in ListsOf(rows, MaxSaveRows)}

InitSaves ==
    /\ event_types = {[id |-> 1, slug |-> "a", duration_minutes |-> 1],
                      [id |-> 2, slug |-> "b", duration_minutes |-> 1]}
    /\ availability \in {InitialAvailability, OtherAvailabilityOf1}
    /\ overrides = {}
    /\ meetings = <<>>
    /\ now = DayLen
    /\ InitRequests

NextSaves ==
    \/ \E s \in Savers : \E b \in ConcurrentSaveBodies : SaveReceive(s, b)
    \/ \E s \in Savers : SaveDelete(s)
    \/ \E s \in Savers : SaveInsert(s)
    \/ \E s \in Savers : SaveLockFail(s)
    \/ \E s \in Savers : SaveCommit(s)
    \/ \E s \in Savers : SaveFetch(s)

SpecSaves == InitSaves /\ [][NextSaves]_vars

-----------------------------------------------------------------------------
(* Concurrent event-type create and update requests *)

CreateBodies ==
    [op : {"create"}, id : {0}, name : {<<>>, <<"n">>},
     slug : {<<>>, <<"a">>, <<"c">>}, duration_minutes : {<<>>, <<0>>, <<-1>>, <<1>>}]

\* updates of a stored and of an unknown id: of the slug, of the duration, of
\* both, of the name alone, of nothing
UpdateBodies ==
    [op : {"update"}, id : {1, 2, 9}, name : {<<>>},
     slug : {<<>>, <<"b">>, <<"c">>}, duration_minutes : {<<>>, <<0>>, <<-1>>, <<3>>}]
    \cup [op : {"update"}, id : {1}, name : {<<"n">>}, slug : {<<>>},
          duration_minutes : {<<>>}]

InitEventTypes ==
    /\ event_types = {[id |-> 1, slug |-> "a", duration_minutes |-> 2],
                      [id |-> 2, slug |-> "b", duration_minutes |-> 1]}
    /\ availability = <<>>
    /\ overrides = {}
    /\ meetings = <<>>
    /\ now = 0
    /\ InitRequests

NextEventTypes ==
    \/ \E e \in EventTypeRequests : \E b \in CreateBodies : CreateReceive(e, b)
    \/ \E e \in EventTypeRequests : CreateInsert(e)
    \/ \E e \in EventTypeRequests : CreateFetch(e)
    \/ \E e \in EventTypeRequests : \E b \in UpdateBodies : UpdateReceive(e, b)
    \/ \E e \in EventTypeRequests : UpdateSlugCheck(e)
    \/ \E e \in EventTypeRequests : UpdateWrite(e)
    \/ \E e \in EventTypeRequests : UpdateFetch(e)

SpecEventTypes == InitEventTypes /\ [][NextEventTypes]_vars

-----------------------------------------------------------------------------
(* Two concurrent cancellations and a booking over stored meetings *)

\* the complete bodies of request r for event type a with a UTC start time
BodiesOfA(r) ==
    {b \in ValidBodies(r) : b.eventSlug = "a" /\ b.timezone = "UTC"}

InitCancel ==
    /\ event_types = {[id |-> 1, slug |-> "a", duration_minutes |-> 2],
                      [id |-> 2, slug |-> "b", duration_minutes |-> 1]}
    /\ availability = <<>>
    /\ overrides = {}
    /\ \E status \in {"scheduled", "cancelled"} :
           meetings = <<StoredMeeting(1, 0, 2, "scheduled"),
                        StoredMeeting(1, 2, 2, status)>>
    /\ now = 0
    /\ InitRequests

NextCancel ==
    \/ \E c \in Cancellers : \E id \in 1..(Len(meetings) + 1) : CancelReceive(c, id)
    \/ \E c \in Cancellers : CancelUpdate(c)
    \/ \E b \in BodiesOfA("r1") : BookingReceive("r1", b)
    \/ BookingCheck("r1")
    \/ BookingInsert("r1")
    \/ BookingFetch("r1")

SpecCancel == InitCancel /\ [][NextCancel]_vars

-----------------------------------------------------------------------------
(* An event-type delete with a concurrent booking and availability save *)

DeleteBodies ==
    [op : {"delete"}, id : {1, 9}, name : {<<>>}, slug : {<<>>},
     duration_minutes : {<<>>}]

\* saves of event type 1 whose rows all carry the three required fields
CascadeSaveBodies ==
    {b \in SaveBodies :
         /\ b.eventTypeId = <<1>>
         /\ b.isArray
         /\ \A i \in 1..Len(b.availability) : ~InvalidAvail(b.availability[i])}

InitCascade ==
    /\ event_types = {[id |-> 1, slug |-> "a", duration_minutes |-> 2],
                      [id |-> 2, slug |-> "b", duration_minutes |-> 1]}
    /\ availability \in {InitialAvailability, OtherAvailabilityOf1}
    /\ overrides = {[event_type_id |-> id, override_date |-> 1, is_available |-> FALSE,
                     start_time |-> <<>>, end_time |-> <<>>] : id \in {1, 2}}
    /\ meetings = <<StoredMeeting(1, DayLen, 2, "scheduled"),
                    StoredMeeting(2, DayLen, 1, "scheduled")>>
    /\ now = 0
    /\ InitRequests

NextCascade ==
    \/ \E b \in DeleteBodies : DeleteReceive("e1", b)
    \/ DeleteWrite("e1")
    \/ \E b \in BodiesOfA("r1") : BookingReceive("r1", b)
    \/ BookingCheck("r1")
    \/ BookingInsert("r1")
    \/ BookingFetch("r1")
    \/ \E b \in CascadeSaveBodies : SaveReceive("s1", b)
    \/ SaveDelete("s1")
    \/ SaveInsert("s1")
    \/ SaveCommit("s1")
    \/ SaveFetch("s1")

SpecCascade == InitCascade /\ [][NextCascade]_vars

-----------------------------------------------------------------------------
(* An event-type update over stored meetings, with a booking in flight *)

InitUpdate ==
    /\ event_types = {[id |-> 1, slug |-> "a", duration_minutes |-> 2],
                      [id |-> 2, slug |-> "b", duration_minutes |-> 1]}
    /\ availability = <<>>
    /\ overrides = {}
    /\ \E status \in {"scheduled", "cancelled"} :
           meetings = <<StoredMeeting(1, DayLen, 2, "scheduled"),
                        StoredMeeting(1, DayLen + 2, 2, status)>>
    /\ now = 0
    /\ InitRequests

NextUpdate ==
    \/ \E b \in UpdateBodies : UpdateReceive("e1", b)
    \/ UpdateSlugCheck("e1")
    \/ UpdateWrite("e1")
    \/ UpdateFetch("e1")
    \/ \E b \in BodiesOfA("r1") : BookingReceive("r1", b)
    \/ BookingCheck("r1")
    \/ BookingInsert("r1")
    \/ BookingFetch("r1")

SpecUpdate == InitUpdate /\ [][NextUpdate]_vars

-----------------------------------------------------------------------------
(* Slot generation followed turn by turn, after updates of duration_minutes   *)
(* and over rules that the availability save accepts                          *)

\* rules of the weekday of date 1: one that ends after it starts, one that ends
\* before it starts, one that ends when it starts
LoopRules ==
    LET rule == [event_type_id |-> 1, day_of_week |-> 2, start_time |-> 0,
                 end_time |-> 2, timezone |-> "UTC"]
    IN  {rule,
         [rule EXCEPT !.start_time = 2, !.end_time = 1],
         [rule EXCEPT !.start_time = 1, !.end_time = 1],
         [rule EXCEPT !.start_time = 1, !.end_time = 3, !.timezone = "East"]}

\* updates of duration_minutes of event type 1
LoopUpdateBodies ==
    {b \in UpdateBodies : b.id = 1 /\ b.slug = <<>> /\ b.duration_minutes # <<>>}

InitLoop ==
    /\ event_types = {[id |-> 1, slug |-> "a", duration_minutes |-> 1],
                      [id |-> 2, slug |-> "b", duration_minutes |-> 1]}
    /\ availability \in {q \in ListsOf(LoopRules, MaxRules) : Distinct(q)}
    /\ overrides = {}
    /\ meetings \in {<<>>, <<StoredMeeting(1, DayLen, 1, "scheduled")>>}
    /\ now \in {DayLen, DayLen + 1}
    /\ InitRequests

NextLoop ==
    \/ \E b \in LoopUpdateBodies : UpdateReceive("e1", b)
    \/ UpdateSlugCheck("e1")
    \/ UpdateWrite("e1")
    \/ UpdateFetch("e1")
    \/ \E z \in Zones : SlotsBegin("a", 1, z)
    \/ SlotsFor
    \/ SlotsWhile

SpecLoop == InitLoop /\ [][NextLoop]_vars

-----------------------------------------------------------------------------
(* The booking page: slots are fetched, one of them is booked with the        *)
(* timezone of the fetch, slots are fetched again                             *)

\* handleBooking: the body made of the selected slot and the page's timezone
SelectedSlotBody(r, selectedSlot) ==
    [eventSlug |-> slotsCall.eventSlug, inviteeName |-> r, inviteeEmail |-> "e",
     startTime |-> <<selectedSlot.start>>, timezone |-> slotsCall.timezone]

InitPick ==
    /\ \E d \in Durations :
           event_types = {[id |-> 1, slug |-> "a", duration_minutes |-> d],
                          [id |-> 2, slug |-> "b", duration_minutes |-> 1]}
    /\ availability \in RuleLists
    /\ overrides = {}
    /\ meetings \in {<<>>, <<StoredMeeting(1, DayLen + 2, 1, "scheduled")>>}
    /\ now = DayLen
    /\ InitRequests

\* the page fetches the slots while no booking of it is under way, and after a
\* booking it fetches them with the timezone it booked with
NextPick ==
    \/ \E z \in Zones :
           /\ pc["r1"] = "idle" \/ (pc["r1"] = "done" /\ z = body["r1"].timezone)
           /\ GenerateSlots("a", 1, z)
    \/ \E k \in 1..Len(slotsCall.res.slots) :
           BookingReceive("r1", SelectedSlotBody("r1", slotsCall.res.slots[k]))
    \/ BookingCheck("r1")
    \/ BookingInsert("r1")
    \/ BookingFetch("r1")

SpecPick == InitPick /\ [][NextPick]_vars

-----------------------------------------------------------------------------
(* A cancellation followed by a booking of the freed interval and by slot     *)
(* generation for its date                                                    *)

\* rules of the weekday of date 0
RebookRules ==
    LET rule == [event_type_id |-> 1, day_of_week |-> 1, start_time |-> 0,
                 end_time |-> 2, timezone |-> "UTC"]
    IN  {rule,
         [rule EXCEPT !.end_time = 3],
         [rule EXCEPT !.start_time = 1, !.end_time = 3, !.timezone = "East"]}

InitRebook ==
    /\ \E d \in Durations :
           event_types = {[id |-> 1, slug |-> "a", duration_minutes |-> d],
                          [id |-> 2, slug |-> "b", duration_minutes |-> 1]}
    /\ availability \in ListsOf(RebookRules, 1)
    /\ overrides = {}
    /\ \E t \in 0..MaxStart, len \in Durations :
           meetings \in {<<StoredMeeting(1, t, len, "scheduled")>>,
                         <<StoredMeeting(1, t, len, "scheduled"),
                           StoredMeeting(1, t + len, len, "scheduled")>>}
    /\ now \in {0, 1}
    /\ InitRequests

NextRebook ==
    \/ \E id \in 1..Len(meetings) : CancelReceive("c1", id)
    \/ CancelUpdate("c1")
    \/ \E b \in BodiesOfA("r1") : BookingReceive("r1", b)
    \/ BookingCheck("r1")
    \/ BookingInsert("r1")
    \/ BookingFetch("r1")
    \/ \E z \in Zones : GenerateSlots("a", 0, z)

SpecRebook == InitRebook /\ [][NextRebook]_vars

-----------------------------------------------------------------------------
(* One booking request over any rules, override and current instant *)

\* none, or the override that blocks date 0 for event type 1
AcceptOverrides ==
    {{}, {[event_type_id |-> 1, override_date |-> 0, is_available |-> FALSE,
           start_time |-> <<>>, end_time |-> <<>>]}}

InitAccept ==
    /\ event_types = {[id |-> 1, slug |-> "a", duration_minutes |-> 2],
                      [id |-> 2, slug |-> "b", duration_minutes |-> 1]}
    /\ availability \in ListsOf(RebookRules, 1)
    /\ overrides \in AcceptOverrides
    /\ \E t \in 0..MaxStart, status \in {"scheduled", "cancelled"} :
           meetings \in {<<>>, <<StoredMeeting(1, t, 2, status)>>}
    /\ now \in {0, DayLen}
    /\ InitRequests

NextAccept ==
    \/ \E b \in Bodies("r1") : BookingReceive("r1", b)
    \/ BookingCheck("r1")
    \/ BookingInsert("r1")
    \/ BookingFetch("r1")

SpecAccept == InitAccept /\ [][NextAccept]_vars

-----------------------------------------------------------------------------
(* Slot generation and booking with a timezone name that is not a zone *)

\* complete bodies for event type a in a zone and in the unknown zone
TimezoneBodies(r) ==
    {[b EXCEPT !.timezone = z] : b \in BodiesOfA(r), z \in {"East", UnknownZone}}

InitTimezone ==
    /\ event_types = {[id |-> 1, slug |-> "a", duration_minutes |-> 2],
                      [id |-> 2, slug |-> "b", duration_minutes |-> 1]}
    /\ availability \in {<<r>> : r \in {q \in RuleRows : q.event_type_id = 1}}
    /\ overrides = {}
    /\ meetings = <<>>
    /\ now = 0
    /\ InitRequests

NextTimezone ==
    \/ \E z \in {"East", UnknownZone} : \E d \in SlotDates : GenerateSlots("a", d, z)
    \/ \E r \in Requests : \E b \in TimezoneBodies(r) : BookingReceive(r, b)
    \/ \E r \in Requests : BookingCheck(r)
    \/ \E r \in Requests : BookingInsert(r)
    \/ \E r \in Requests : BookingFetch(r)

SpecTimezone == InitTimezone /\ [][NextTimezone]_vars

-----------------------------------------------------------------------------
(* Properties of booking creation *)

\* the open-interval overlap test: a.start < b.end and b.start < a.end
Overlap(aStart, aEnd, bStart, bEnd) == aStart < bEnd /\ bStart < aEnd

\* request r passed validation and found its event type
Admitted(r) == pc[r] # "idle" /\ response[r].status \notin {400, 404}

NoCancellation == \A c \in Cancellers : cpc[c] = "idle"

\* C1: two booking requests for the same event type and the same start time, with
\* their steps interleaved in any order and no cancellation in between, end with
\* exactly one 201 (created) and one 409 (conflict).
C1_ExactlyOneCreated ==
    \A r1, r2 \in Requests :
        (/\ r1 # r2
         /\ pc[r1] = "done" /\ pc[r2] = "done"
         /\ Admitted(r1) /\ Admitted(r2)
         /\ locals[r1].eventType.id = locals[r2].eventType.id
         /\ locals[r1].startTimeUTC = locals[r2].startTimeUTC
         /\ NoCancellation)
        => \/ response[r1].status = 201 /\ response[r2].status = 409
           \/ response[r1].status = 409 /\ response[r2].status = 201

\* C2: no two scheduled meetings of the same event type overlap.
C2_NoOverlappingScheduled ==
    \A i, j \in MeetingIds :
        (/\ i # j
         /\ meetings[i].event_type_id = meetings[j].event_type_id
         /\ meetings[i].status = "scheduled"
         /\ meetings[j].status = "scheduled")
        => ~Overlap(meetings[i].start_time, meetings[i].end_time,
                    meetings[j].start_time, meetings[j].end_time)

\* the interval request r asks for: its civil startTime read in its timezone, and
\* duration_minutes of the event type of its slug later
RequestedStart(r) == body[r].startTime[1] - Offset(body[r].timezone)
RequestedEnd(r) ==
    RequestedStart(r)
    + (CHOOSE et \in event_types : et.slug = body[r].eventSlug).duration_minutes

\* some scheduled meeting of the event type of r overlaps the requested interval
RequestOverlaps(r) ==
    \E i \in MeetingIds :
        /\ meetings[i].status = "scheduled"
        /\ \E et \in event_types : /\ et.slug = body[r].eventSlug
                                   /\ et.id = meetings[i].event_type_id
        /\ RequestedStart(r) < meetings[i].end_time
        /\ meetings[i].start_time < RequestedEnd(r)

\* C3: when an admitted request reads the meetings table, it is answered 409
\* exactly when a scheduled meeting of its event type overlaps the requested
\* interval under the open-interval test; otherwise it goes on to insert, and its
\* insert stores a scheduled meeting over exactly the requested interval.
C3_ConflictIffOverlap ==
    [][\A r \in Requests :
           /\ (pc[r] = "check" /\ pc'[r] # "check")
              => /\ (pc'[r] = "done" /\ response'[r].status = 409) <=> RequestOverlaps(r)
                 /\ ~RequestOverlaps(r) => pc'[r] = "insert"
           /\ (pc[r] = "insert" /\ pc'[r] # "insert")
              => /\ Len(meetings') = Len(meetings) + 1
                 /\ meetings'[Len(meetings')].start_time = RequestedStart(r)
                 /\ meetings'[Len(meetings')].end_time = RequestedEnd(r)
                 /\ meetings'[Len(meetings')].status = "scheduled"]_vars

\* C3 witness: a request was created although a scheduled meeting of its event
\* type ends exactly where it starts
C3_Witness ==
    \E r \in Requests :
        /\ response[r].status = 201
        /\ \E i \in MeetingIds :
               /\ i # locals[r].insertId
               /\ meetings[i].event_type_id = locals[r].eventType.id
               /\ meetings[i].status = "scheduled"
               /\ meetings[i].end_time = locals[r].startTimeUTC

\* C4: the step that answers a booking request with 400, 404 or 409 leaves the
\* meetings table as it was, and that request has inserted nothing before.
C4_FailedBookingInsertsNothing ==
    [][\A r \in Requests :
           (pc[r] # "done" /\ pc'[r] = "done" /\ response'[r].status \in {400, 404, 409})
           => /\ meetings' = meetings
              /\ locals'[r].insertId = 0]_vars

\* C4 witness: a request was answered 409 while a meeting is stored
C4_Witness ==
    /\ Len(meetings) > 0
    /\ \E r \in Requests : response[r].status = 409

-----------------------------------------------------------------------------
(* Properties of slot generation.  They are stated about the last call,       *)
(* slotsCall, which in SpecSlots is made on the tables as they still are.     *)

Returned == slotsCall.res.status = 200
Slots == slotsCall.res.slots
SlotIndex == 1..Len(Slots)

\* the event type the call names
CalledEventType == CHOOSE et \in event_types : et.slug = slotsCall.eventSlug

\* the override row stored for the called event type and date, as a set
CalledOverride ==
    {o \in overrides : /\ o.event_type_id = CalledEventType.id
                       /\ o.override_date = slotsCall.date}

\* the stored rules of the called event type for the weekday of the called date
DayRules ==
    {j \in 1..Len(availability) :
         /\ availability[j].event_type_id = CalledEventType.id
         /\ availability[j].day_of_week = (slotsCall.date + 1) % 7}

\* C5: no returned slot overlaps, under the open-interval test, a stored scheduled
\* meeting of the event type.
C5_NoSlotOverlapsMeeting ==
    Returned =>
        \A k \in SlotIndex : \A i \in MeetingIds :
            (meetings[i].event_type_id = CalledEventType.id
             /\ meetings[i].status = "scheduled")
            => ~Overlap(Slots[k].startUTC, Slots[k].endUTC,
                        meetings[i].start_time, meetings[i].end_time)

\* C6: start and end of every returned slot are the civil date-times, in the
\* requested timezone, of the instants that were checked against the bookings.
C6_SlotsInViewerTimezone ==
    Returned =>
        \A k \in SlotIndex :
            /\ Slots[k].start = Slots[k].startUTC + Offset(slotsCall.timezone)
            /\ Slots[k].end = Slots[k].endUTC + Offset(slotsCall.timezone)

C8_BlockedDateIsEmpty ==
    (Returned /\ \E o \in CalledOverride : ~o.is_available) => Slots = <<>>

\* C8 witness: the call was made on a blocked date whose weekday has a rule that,
\* with no meeting stored and nothing in the past, would give slots
C8_Witness ==
    /\ Returned
    /\ \E o \in CalledOverride : ~o.is_available
    /\ DayRules # {}
    /\ meetings = <<>>
    /\ now <= slotsCall.date * DayLen

\* the override of the called event type and date carries is_available = true and
\* both times
OpenOverride(o) == o.is_available /\ o.start_time # <<>> /\ o.end_time # <<>>

\* the instants of the override's start and end on the called date, read in the
\* requested timezone
OverrideStart(o) ==
    slotsCall.date * DayLen + o.start_time[1] - Offset(slotsCall.timezone)
OverrideEnd(o) ==
    slotsCall.date * DayLen + o.end_time[1] - Offset(slotsCall.timezone)

\* C9: with an override that has is_available = true and both times, every
\* returned slot lies within [override.start, override.end] read in the requested
\* timezone, starts a whole number of durations after override.start, and no two
\* slots start together: nothing comes from the weekly rules.
C9_OverrideReplacesRules ==
    Returned =>
        \A o \in CalledOverride :
            OpenOverride(o) =>
                /\ \A k \in SlotIndex :
                       /\ OverrideStart(o) <= Slots[k].startUTC
                       /\ Slots[k].endUTC <= OverrideEnd(o)
                       /\ (Slots[k].startUTC - OverrideStart(o))
                              % CalledEventType.duration_minutes = 0
                       /\ slotsCall.date * DayLen + o.start_time[1] <= Slots[k].start
                       /\ Slots[k].end <= slotsCall.date * DayLen + o.end_time[1]
                /\ \A k, l \in SlotIndex :
                       Slots[k].startUTC = Slots[l].startUTC => k = l

\* C9 witness: slots were returned under such an override while the weekday has a
\* rule that starts before the override does
C9_Witness ==
    /\ Returned
    /\ Len(Slots) > 0
    /\ \E o \in CalledOverride :
           /\ OpenOverride(o)
           /\ \E i \in DayRules :
                  /\ availability[i].timezone = slotsCall.timezone
                  /\ availability[i].start_time < o.start_time[1]

\* the ranges in force for the call, as pairs of instants: none when the weekday
\* has no rule; else the override's range read in the requested timezone; else
\* the rules of the weekday, each read in its own timezone
EffectiveRanges ==
    IF DayRules = {} THEN {}
    ELSE IF \E o \in CalledOverride : OpenOverride(o)
    THEN {<<OverrideStart(o), OverrideEnd(o)>> : o \in CalledOverride}
    ELSE {<<slotsCall.date * DayLen + availability[i].start_time
              - Offset(availability[i].timezone),
            slotsCall.date * DayLen + availability[i].end_time
              - Offset(availability[i].timezone)>> : i \in DayRules}

\* the starts of the candidates of a range: range start plus k durations, the
\* candidate ending within the range
CandidateStarts(range) ==
    {t \in range[1]..range[2] :
         /\ (t - range[1]) % CalledEventType.duration_minutes = 0
         /\ t + CalledEventType.duration_minutes <= range[2]}

Unbooked(t) ==
    \A i \in MeetingIds :
        (meetings[i].event_type_id = CalledEventType.id
         /\ meetings[i].status = "scheduled")
        => ~Overlap(t, t + CalledEventType.duration_minutes,
                    meetings[i].start_time, meetings[i].end_time)

DateBlocked == \E o \in CalledOverride : ~o.is_available

\* C10: no returned slot starts before the current instant, and every candidate
\* of a range in force that no scheduled meeting overlaps and that starts at or
\* after the current instant is returned.
C10_PastSlotsOnly ==
    Returned =>
        /\ \A k \in SlotIndex : Slots[k].startUTC >= now
        /\ ~DateBlocked =>
               \A range \in EffectiveRanges : \A t \in CandidateStarts(range) :
                   (Unbooked(t) /\ t >= now)
                   => \E k \in SlotIndex :
                          /\ Slots[k].startUTC = t
                          /\ Slots[k].endUTC = t + CalledEventType.duration_minutes

\* C10 witness: a candidate that started before the current instant is missing
\* and a slot that starts exactly at the current instant was returned
C10_Witness ==
    /\ Returned
    /\ ~DateBlocked
    /\ \E k \in SlotIndex : Slots[k].startUTC = now
    /\ \E range \in EffectiveRanges : \E t \in CandidateStarts(range) :
           /\ t < now
           /\ Unbooked(t)
           /\ \A k \in SlotIndex : Slots[k].startUTC # t

\* C11: the slots of a response are in ascending order of their start value,
\* and two slots with the same start value are in ascending order of their end
\* value, whatever the number, the order, the overlap and the timezones of the
\* rules of the weekday.
C11_SortedByStartThenEnd ==
    Returned =>
        \A i, j \in SlotIndex :
            i < j => \/ Slots[i].start < Slots[j].start
                     \/ /\ Slots[i].start = Slots[j].start
                        /\ Slots[i].end <= Slots[j].end

\* two rules of the weekday stored in different timezones, the later range
\* first, with two slots of the response starting at the same value
C11_Witness ==
    /\ Returned
    /\ CalledOverride = {}
    /\ Len(availability) = 2
    /\ DayRules = {1, 2}
    /\ availability[1].timezone # availability[2].timezone
    /\ availability[1].start_time > availability[2].start_time
    /\ \E i, j \in SlotIndex : i < j /\ Slots[i].start = Slots[j].start

\* the call is made with no override stored for the date and every rule of the
\* weekday stored in the requested timezone
RulesInViewerTimezone ==
    /\ CalledOverride = {}
    /\ \A i \in DayRules : availability[i].timezone = slotsCall.timezone

\* the intervals [rangeStart + k*d, rangeStart + (k+1)*d] that fit in a rule of
\* the weekday, that no scheduled meeting of the event type overlaps and that
\* do not start before the current instant: civil start and end in the
\* requested timezone, and the two instants
ExpectedSlots ==
    {<<t + Offset(slotsCall.timezone),
       t + CalledEventType.duration_minutes + Offset(slotsCall.timezone),
       t, t + CalledEventType.duration_minutes>> :
         t \in {u \in UNION {CandidateStarts(range) : range \in EffectiveRanges} :
                    Unbooked(u) /\ u >= now}}

\* C12: with no override and the rules in the requested timezone, the slots of
\* the response are exactly the whole-duration intervals of the rules of the
\* weekday minus those a scheduled meeting overlaps and those that start before
\* the current instant: none is added and none is missing.
C12_ExactSlots ==
    (Returned /\ RulesInViewerTimezone) =>
        {<<Slots[k].start, Slots[k].end, Slots[k].startUTC, Slots[k].endUTC>> :
             k \in SlotIndex} = ExpectedSlots

-----------------------------------------------------------------------------
(* Properties of the availability save, stated in SpecSave about the rules of *)
(* event type 1                                                               *)

\* the rules of event type 1 stored before the save
OldRules == SelectSeq(InitialAvailability, LAMBDA a : a.event_type_id = 1)

\* the rules the list of save s stands for
NewRules(s) ==
    [i \in 1..Len(sbody[s].availability) |->
         AvailabilityRow(sbody[s].eventTypeId[1], sbody[s].availability[i])]

\* save s passed the checks before its transaction
SaveAdmitted(s) == spc[s] # "idle" /\ sresponse[s].status \notin {400, 404}

\* the transaction of save s is committed
Committed(s) ==
    SaveAdmitted(s) /\ (spc[s] = "fetch" \/ sresponse[s].status = 200)

\* rows is the complete rule set of before the save or the complete rule set
\* of a committed save
OldOrNew(rows) ==
    \/ rows = OldRules
    \/ \E s \in Savers : Committed(s) /\ rows = NewRules(s)

\* C13: every availability read made while a save of the event type is in
\* progress returns the complete old rule set or the complete new one, and
\* slot generation reads one of the two: no reader gets an empty or partly
\* inserted set.
C13_ReadersSeeOldOrNew ==
    [][/\ rread' # rread =>
              \E rows \in {OldRules}
                           \cup {NewRules(s) : s \in {t \in Savers : Committed(t)}} :
                  rread'.rows \in OrderedRules(rows)
       /\ (rread' # rread \/ slotsCall' # slotsCall) => OldOrNew(AvailabilityOf(1))]_vars

\* C13 witness: both readers were answered with the old rules while the
\* transaction of a save of two other rows has deleted and inserted one row
C13_Witness ==
    /\ spc["s1"] = "insert"
    /\ stx["s1"].deleted
    /\ Len(stx["s1"].inserted) = 1
    /\ Len(sbody["s1"].availability) = 2
    /\ stx["s1"].inserted[1] # OldRules[1]
    /\ rread.eventTypeId = 1
    /\ rread.rows \in OrderedRules(OldRules)
    /\ slotsCall.res.status = 200
    /\ Len(slotsCall.res.slots) = 2

\* a row of the list of save s lacks dayOfWeek, startTime or endTime
HasInvalidRow(s) ==
    \E i \in 1..Len(sbody[s].availability) : InvalidAvail(sbody[s].availability[i])

\* C14: a save whose list has a row without dayOfWeek, startTime or endTime, at
\* any position, never changes the stored rules of the event type and is
\* answered as failed.
C14_InvalidRowRollsBack ==
    \A s \in Savers :
        (SaveAdmitted(s) /\ HasInvalidRow(s)) =>
            /\ AvailabilityOf(1) = OldRules
            /\ spc[s] = "done" => sresponse[s].status = 500

\* C14 witness: the save failed on its second row, after the delete and the
\* insert of its first row
C14_Witness ==
    /\ spc["s1"] = "done"
    /\ sresponse["s1"].status = 500
    /\ Len(sbody["s1"].availability) = 2
    /\ ~InvalidAvail(sbody["s1"].availability[1])
    /\ InvalidAvail(sbody["s1"].availability[2])
    /\ AvailabilityOf(1) = OldRules

\* C15: every stored availability rule has day_of_week in 0..6 and start_time
\* before end_time, and a save with a row outside these conditions stores
\* nothing.
C15_StoredRulesWellFormed ==
    \A i \in 1..Len(availability) :
        /\ availability[i].day_of_week \in 0..6
        /\ availability[i].start_time < availability[i].end_time

-----------------------------------------------------------------------------
(* Properties of the event-type routes *)

\* C16: every stored event type has duration_minutes of at least 1, after any
\* creates and updates; a create or update with a duration of zero or less
\* leaves the table as it is.
C16_DurationPositive ==
    \A et \in event_types : et.duration_minutes >= 1

UniqueSlugs ==
    \A x, y \in event_types : x.slug = y.slug => x = y

\* request e is about to write a slug that another stored event type has
WouldDuplicate(e) ==
    \/ /\ epc[e] = "insert"
       /\ EventTypeBySlug(ebody[e].slug[1]) # {}
    \/ /\ epc[e] \in {"slug", "update"}
       /\ EventTypeById(ebody[e].id) # {}
       /\ ebody[e].slug # <<>>
       /\ SlugTaken(ebody[e].slug[1], ebody[e].id)

\* C17: no two stored event types have the same slug, in every state of every
\* interleaving of creates and updates, and the step of a create or an update
\* that finds the slug it would write on another event type answers 400 and
\* leaves the table as it is.
C17_UniqueSlugs ==
    /\ []UniqueSlugs
    /\ [][\A e \in EventTypeRequests :
              (WouldDuplicate(e) /\ epc'[e] # epc[e]) =>
                  /\ eresponse'[e].status = 400
                  /\ event_types' = event_types]_vars

\* C17 witness: two creates of the same new slug, one answered 201 and the
\* other one, which has passed the slug query, at its INSERT
C17_Witness ==
    /\ ebody["e1"].op = "create"
    /\ ebody["e2"].op = "create"
    /\ ebody["e1"].slug = ebody["e2"].slug
    /\ eresponse["e1"].status = 201
    /\ epc["e2"] = "insert"
    /\ WouldDuplicate("e2")

-----------------------------------------------------------------------------
(* Properties of cancellation *)

\* C18: a step changes a stored meeting only by the UPDATE of a cancellation,
\* from scheduled to cancelled and in nothing but the status; that UPDATE
\* leaves the meeting cancelled; no step takes a meeting out of cancelled; and
\* a cancellation request that finds the meeting cancelled is answered 400 and
\* changes no meeting.
C18_CancelOneWay ==
    [][/\ \A i \in MeetingIds :
              /\ i \in 1..Len(meetings')
              /\ \/ meetings'[i] = meetings[i]
                 \/ /\ meetings[i].status = "scheduled"
                    /\ meetings'[i] = [meetings[i] EXCEPT !.status = "cancelled"]
                    /\ \E c \in Cancellers :
                           cpc[c] = "update" /\ cid[c] = i /\ cpc'[c] = "done"
       /\ \A c \in Cancellers :
              (cpc[c] = "update" /\ cpc'[c] = "done") =>
                  /\ meetings'[cid[c]].status = "cancelled"
                  /\ cresponse'[c] = 200
       /\ \A c \in Cancellers :
              (/\ cpc[c] = "idle"
               /\ cpc'[c] # "idle"
               /\ cid'[c] \in MeetingIds
               /\ meetings[cid'[c]].status = "cancelled") =>
                  /\ cresponse'[c] = 400
                  /\ cpc'[c] = "done"
                  /\ meetings' = meetings]_vars

\* C18 witness: a meeting that was stored scheduled is cancelled by the first
\* request and the second request for it was answered 400, with a booking
\* stored beside it
C18_Witness ==
    /\ Len(meetings) = 3
    /\ meetings[1].status = "cancelled"
    /\ cid["c1"] = 1
    /\ cresponse["c1"] = 200
    /\ cid["c2"] = 1
    /\ cresponse["c2"] = 400

-----------------------------------------------------------------------------
(* Properties of the foreign keys *)

\* C19: every stored availability rule, override and meeting carries the id of
\* a stored event type, in every state of every interleaving of a delete with
\* a booking and an availability save of the event type; after the delete no
\* row of the deleted event type is left.
C19_ReferentialIntegrity ==
    /\ \A i \in 1..Len(availability) :
           EventTypeById(availability[i].event_type_id) # {}
    /\ \A o \in overrides : EventTypeById(o.event_type_id) # {}
    /\ \A i \in MeetingIds : EventTypeById(meetings[i].event_type_id) # {}

\* C19 witness: event type 1 is deleted with its rules, override and meeting,
\* the rows of the other event type are still stored, and the booking and the
\* save that had found the event type before the delete were both refused at
\* their INSERT
C19_Witness ==
    /\ epc["e1"] = "done"
    /\ eresponse["e1"].status = 200
    /\ EventTypeById(1) = {}
    /\ Len(availability) = 1
    /\ Cardinality(overrides) = 1
    /\ MeetingIds = {2}
    /\ response["r1"].status = 500
    /\ Len(sbody["s1"].availability) = 1
    /\ sresponse["s1"].status = 500

-----------------------------------------------------------------------------
(* Properties of the timezone parameter *)

\* C20: a slot generation call with a timezone name that is not a zone is
\* answered with an error and no slots, and a booking request with such a name
\* is answered with an error and stores no meeting.
C20_UnknownTimezoneRejected ==
    /\ (slotsCall # NoCall /\ slotsCall.timezone \notin Zones) =>
           /\ slotsCall.res.status >= 400
           /\ slotsCall.res.slots = <<>>
    /\ \A r \in Requests :
           (pc[r] # "idle" /\ ~MissingField(body[r]) /\ body[r].timezone \notin Zones) =>
               /\ \A i \in MeetingIds : meetings[i].invitee_name # body[r].inviteeName
               /\ pc[r] = "done" => response[r].status >= 400

-----------------------------------------------------------------------------
(* Properties of slot generation on its early returns *)

\* the call names a stored event type
CalledExists == slotsCall # NoCall /\ EventTypeBySlug(slotsCall.eventSlug) # {}

\* the rules of the called event type, of any weekday
CalledRules ==
    {j \in 1..Len(availability) : availability[j].event_type_id = CalledEventType.id}

\* duration_minutes is larger than the span of every range in force
DurationExceedsRanges ==
    \A range \in EffectiveRanges : CalledEventType.duration_minutes > range[2] - range[1]

\* C21: a call for a stored event type is answered 200, and with the empty
\* sequence when the event type has no rule, when no rule is of the weekday of
\* the date, and when duration_minutes exceeds the span of every range in
\* force.
C21_EmptyIsSuccess ==
    CalledExists =>
        /\ slotsCall.res.status = 200
        /\ (CalledRules = {} \/ DayRules = {} \/ DurationExceedsRanges) => Slots = <<>>

\* C21 witness: the weekday has a rule, nothing is booked or past, and the
\* duration is longer than the rule
C21_Witness ==
    /\ CalledExists
    /\ DayRules # {}
    /\ CalledOverride = {}
    /\ DurationExceedsRanges
    /\ meetings = <<>>
    /\ now <= slotsCall.date * DayLen
    /\ Slots = <<>>

-----------------------------------------------------------------------------
(* Properties of repeated slot generation *)

-----------------------------------------------------------------------------
(* Properties of the event-type update over meetings *)

\* C23: no step of an event-type update changes start_time, end_time or status
\* of a stored meeting, whatever field it changes and whatever it sets
\* duration_minutes to.
C23_UpdateKeepsMeetings ==
    [][epc' # epc =>
           \A i \in MeetingIds :
               /\ i \in 1..Len(meetings')
               /\ meetings'[i].start_time = meetings[i].start_time
               /\ meetings'[i].end_time = meetings[i].end_time
               /\ meetings'[i].status = meetings[i].status]_vars

\* C23 witness: the update of duration_minutes of event type 1 is answered 200
\* and its stored meeting still has the length it was booked with
C23_Witness ==
    /\ eresponse["e1"].status = 200
    /\ ebody["e1"].id = 1
    /\ \E et \in EventTypeById(1) : et.duration_minutes = 3
    /\ meetings[1].end_time - meetings[1].start_time = 2

-----------------------------------------------------------------------------
(* Properties of concurrent availability saves *)

\* C24: whatever the interleaving of the saves of one event type, a step
\* changes the stored rules of the event type only as the commit of a save,
\* and leaves exactly the list of that save: once all saves have completed
\* the stored set is the list of the last save to commit, with no row of
\* another list and no row of an earlier set.
C24_LastCommitWins ==
    [][\/ AvailabilityOf(1)' = AvailabilityOf(1)
       \/ \E s \in Savers : /\ spc[s] = "insert"
                            /\ spc'[s] = "fetch"
                            /\ AvailabilityOf(1)' = NewRules(s)]_vars

\* C24 witness: both saves are answered 200 with two different lists; s1
\* committed first and read the rules back after the commit of s2, whose list
\* is the stored set
C24_Witness ==
    /\ \A s \in Savers : spc[s] = "done" /\ sresponse[s].status = 200
    /\ NewRules("s1") # <<>>
    /\ NewRules("s2") # <<>>
    /\ sresponse["s1"].rows \in OrderedRules(NewRules("s2"))
    /\ sresponse["s1"].rows \notin OrderedRules(NewRules("s1"))
    /\ AvailabilityOf(1) = NewRules("s2")

-----------------------------------------------------------------------------
(* Properties of concurrent cancellations *)

\* C25: of two cancellation requests for the same meeting, at most one is
\* answered 200; the other is answered 400, already cancelled.
C25_AtMostOneSuccess ==
    \A c, d \in Cancellers :
        (c # d /\ cid[c] = cid[d] /\ cresponse[c] = 200) => cresponse[d] # 200

-----------------------------------------------------------------------------
(* Properties of slot generation on a weekday without rules *)

\* C26: when the weekday of the requested date has no weekly rule, the call
\* returns the empty sequence, also when an override of that date has
\* is_available = true with a start and an end time.
C26_OverrideNeedsWeekdayRule ==
    (CalledExists /\ DayRules = {}) => (Returned /\ Slots = <<>>)

\* C26 witness: the event type has rules of another weekday only, the date has
\* an override that is open from a start to a later end that its duration fits
\* in and that is not past, and the call returned no slot
C26_Witness ==
    /\ CalledExists
    /\ DayRules = {}
    /\ CalledRules # {}
    /\ \E o \in CalledOverride :
           /\ OpenOverride(o)
           /\ o.start_time[1] + CalledEventType.duration_minutes <= o.end_time[1]
           /\ now <= OverrideStart(o)
    /\ \A i \in MeetingIds : meetings[i].status # "scheduled"
    /\ Returned
    /\ Slots = <<>>

-----------------------------------------------------------------------------
(* Properties of the termination of slot generation *)

\* C27: slot generation ends with a response for every event type and rule
\* set that create, update and the availability save accept, a duration of 0
\* or less and a rule that does not start before it ends included: every turn
\* of the while loop moves currentSlot forward, towards the endMoment that the
\* test of the loop compares it with.
C27_EveryTurnAdvances ==
    [][(loop.pc = "while" /\ loop'.pc = "while" /\ loop'.turns # loop.turns)
           => loop'.currentSlot.t > loop.currentSlot.t]_vars

-----------------------------------------------------------------------------
(* Properties of booking a returned slot *)

\* C28: when a returned slot is booked with its start value and the timezone
\* of the call, the stored meeting has the UTC interval the generator checked
\* for that slot, and the next call with the same inputs does not return a
\* slot with that start value; the rule's timezone may differ from the
\* timezone of the call.
C28_BookedSlotIsTaken ==
    [][/\ Len(meetings') > Len(meetings) =>
              \E k \in SlotIndex :
                  /\ Slots[k].start = body["r1"].startTime[1]
                  /\ meetings'[Len(meetings')].start_time = Slots[k].startUTC
                  /\ meetings'[Len(meetings')].end_time = Slots[k].endUTC
       /\ (slotsCall' # slotsCall /\ response["r1"].status = 201) =>
              \A k \in 1..Len(slotsCall'.res.slots) :
                  slotsCall'.res.slots[k].start # body["r1"].startTime[1]]_vars

-----------------------------------------------------------------------------
(* Properties of a cancelled meeting's interval *)

\* the request of r is for the interval and the event type of the cancelled
\* meeting i
SameAsCancelled(r, i) ==
    /\ meetings[i].status = "cancelled"
    /\ meetings[i].event_type_id = locals[r].eventType.id
    /\ meetings[i].start_time = locals[r].startTimeUTC
    /\ meetings[i].end_time = locals[r].endTimeUTC

\* no scheduled meeting of the event type of the request of r overlaps it
NothingScheduledOver(r) ==
    \A i \in MeetingIds :
        (meetings[i].event_type_id = locals[r].eventType.id
         /\ meetings[i].status = "scheduled")
        => ~Overlap(locals[r].startTimeUTC, locals[r].endTimeUTC,
                    meetings[i].start_time, meetings[i].end_time)

\* the cancelled meetings of the called event type whose interval is a
\* candidate of a range in force, not past and free of scheduled meetings,
\* are among the returned slots
CancelledAreOffered ==
    Returned =>
        \A i \in MeetingIds :
            (/\ meetings[i].status = "cancelled"
             /\ meetings[i].event_type_id = CalledEventType.id
             /\ meetings[i].end_time - meetings[i].start_time
                    = CalledEventType.duration_minutes
             /\ \E range \in EffectiveRanges :
                    meetings[i].start_time \in CandidateStarts(range)
             /\ meetings[i].start_time >= now
             /\ Unbooked(meetings[i].start_time))
            => \E k \in SlotIndex : /\ Slots[k].startUTC = meetings[i].start_time
                                    /\ Slots[k].endUTC = meetings[i].end_time

\* C29: a cancelled meeting blocks nothing: a booking request for its interval
\* and event type that no scheduled meeting overlaps passes the conflict check
\* and is stored, and a slot generation returns the slot of that interval when
\* it is a candidate of a range in force, not past and free of scheduled
\* meetings.
C29_CancelledBlocksNothing ==
    [][/\ (/\ pc["r1"] = "check"
           /\ pc'["r1"] # "check"
           /\ \E i \in MeetingIds : SameAsCancelled("r1", i)
           /\ NothingScheduledOver("r1"))
          => pc'["r1"] = "insert"
       /\ (pc["r1"] = "insert" /\ pc'["r1"] # "insert")
          => /\ Len(meetings') = Len(meetings) + 1
             /\ meetings'[Len(meetings')].status = "scheduled"
             /\ meetings'[Len(meetings')].start_time = locals["r1"].startTimeUTC
             /\ meetings'[Len(meetings')].end_time = locals["r1"].endTimeUTC
       /\ slotsCall' # slotsCall => CancelledAreOffered']_vars

\* C29 witness: meeting 1 was cancelled, the slot of its interval was returned
\* by a call, and a booking of the same interval was answered 201
C29_Witness ==
    /\ cid["c1"] = 1
    /\ cresponse["c1"] = 200
    /\ \E k \in SlotIndex : /\ Slots[k].startUTC = meetings[1].start_time
                            /\ Slots[k].endUTC = meetings[1].end_time
    /\ response["r1"].status = 201
    /\ \E i \in MeetingIds : /\ i # 1
                             /\ meetings[i].invitee_name = "r1"
                             /\ meetings[i].start_time = meetings[1].start_time
                             /\ meetings[i].end_time = meetings[1].end_time

-----------------------------------------------------------------------------
(* Properties of the acceptance of a booking *)

\* a meeting stored before the request of r, scheduled and of the requested
\* event type, overlaps the requested interval
OverlapsStored(r) ==
    \E et \in EventTypeBySlug(body[r].eventSlug) :
        \E i \in MeetingIds :
            /\ meetings[i].invitee_name # r
            /\ meetings[i].event_type_id = et.id
            /\ meetings[i].status = "scheduled"
            /\ Overlap(StartTimeUTC(body[r]), EndTimeUTC(body[r], et),
                       meetings[i].start_time, meetings[i].end_time)

\* C30: a booking request is accepted exactly when its five fields are
\* present, its event type exists and no scheduled meeting of the event type
\* overlaps its interval, whatever the availability rules, the overrides and
\* the current instant are.
C30_AcceptanceRule ==
    pc["r1"] = "done" =>
        /\ response["r1"].status = 201
               <=> /\ ~MissingField(body["r1"])
                   /\ EventTypeBySlug(body["r1"].eventSlug) # {}
                   /\ ~OverlapsStored("r1")
        /\ response["r1"].status = 400 <=> MissingField(body["r1"])

\* C30 witness: a request for a past start time, on a blocked date, after the
\* end of the only rule of the event type, is answered 201 and stored
C30_Witness ==
    /\ pc["r1"] = "done"
    /\ response["r1"].status = 201
    /\ body["r1"].eventSlug = "a"
    /\ StartTimeUTC(body["r1"]) < now
    /\ Len(availability) = 1
    /\ availability[1].timezone = "UTC"
    /\ StartTimeUTC(body["r1"]) >= availability[1].end_time
    /\ \E o \in overrides : o.event_type_id = 1 /\ o.override_date = 0 /\ ~o.is_available
    /\ \E i \in MeetingIds : meetings[i].invitee_name = "r1"

====
